---- MODULE Spec2Model ----
(***************************************************************************)
(* The interactive editor of wezterm-settings-tui (src/src/app.rs) as a    *)
(* state machine: one step per key event handled by App::handle_key.       *)
(* Strings that the code inspects character by character (theme and font   *)
(* names, the filters, the edit buffer) are sequences of one-character     *)
(* strings.                                                                *)
(***************************************************************************)
EXTENDS Integers, Sequences, FiniteSets, TLC

(***************************************************************************)
(* Bounds of the model.                                                    *)
(***************************************************************************)
\* Key events read by the event loop in one run of the editor.
MaxKeys == 6

\* Chunks of text in a configuration file.
MaxChunks == 2

(***************************************************************************)
(* Panel (app.rs 17-76).                                                   *)
(***************************************************************************)
Panel == {"Themes", "Colors", "Fonts", "Window", "Cursor", "Gpu", "Keybindings"}

\* Panel::all(): the sidebar order; sidebar_index is 0-based as in the code.
PanelAll == <<"Themes", "Colors", "Fonts", "Window", "Cursor", "Gpu", "Keybindings">>

PanelAt(i) == PanelAll[i + 1]

\* App::new: position of the panel in Panel::all().
PanelPosition(p) == CHOOSE i \in 0..(Len(PanelAll) - 1) : PanelAll[i + 1] = p

InputMode == {"Normal", "Editing", "Help", "Confirm"}

(***************************************************************************)
(* Text helpers: str::to_lowercase and str::contains on ASCII text.        *)
(***************************************************************************)
LowerChar(c) ==
    CASE c = "A" -> "a" [] c = "B" -> "b" [] c = "C" -> "c" [] c = "D" -> "d"
      [] c = "E" -> "e" [] c = "F" -> "f" [] c = "G" -> "g" [] c = "H" -> "h"
      [] c = "I" -> "i" [] c = "J" -> "j" [] c = "K" -> "k" [] c = "L" -> "l"
      [] c = "M" -> "m" [] c = "N" -> "n" [] c = "O" -> "o" [] c = "P" -> "p"
      [] c = "Q" -> "q" [] c = "R" -> "r" [] c = "S" -> "s" [] c = "T" -> "t"
      [] c = "U" -> "u" [] c = "V" -> "v" [] c = "W" -> "w" [] c = "X" -> "x"
      [] c = "Y" -> "y" [] c = "Z" -> "z" [] OTHER -> c

ToLowercase(s) == [i \in 1..Len(s) |-> LowerChar(s[i])]

\* str::contains: pat occurs in s as a contiguous block (the empty pat always).
Contains(s, pat) ==
    \E i \in 0..(Len(s) - Len(pat)) : SubSeq(s, i + 1, i + Len(pat)) = pat

\* iter().filter(pred).cloned().collect(): the in-order sub-list.
RECURSIVE FilterSeq(_, _)
FilterSeq(list, filter) ==
    IF list = <<>> THEN <<>>
    ELSE LET rest == FilterSeq(Tail(list), filter)
         IN  IF Contains(ToLowercase(Head(list)), filter)
             THEN <<Head(list)>> \o rest
             ELSE rest

(***************************************************************************)
(* The catalogues: a sub-list of the entries of get_builtin_themes and of   *)
(* get_common_fonts, in the order of the source lists. The first font is   *)
(* the default family, as in the source.                                   *)
(***************************************************************************)
\* "Nord", "Neon", "Nova", "Wez"
get_builtin_themes ==
    << <<"N","o","r","d">>, <<"N","e","o","n">>, <<"N","o","v","a">>, <<"W","e","z">> >>

\* "JetBrainsMono Nerd Font", "Monaco", "Menlo"
get_common_fonts ==
    << <<"J","e","t","B","r","a","i","n","s","M","o","n","o"," ",
         "N","e","r","d"," ","F","o","n","t">>,
       <<"M","o","n","a","c","o">>,
       <<"M","e","n","l","o">> >>

available_themes == get_builtin_themes

available_fonts == get_common_fonts

\* FontConfig::default().family: "JetBrainsMono Nerd Font".
DefaultFamily ==
    <<"J","e","t","B","r","a","i","n","s","M","o","n","o"," ",
      "N","e","r","d"," ","F","o","n","t">>

\* Option<String>::None for config.color_scheme.
NoScheme == <<>>

(***************************************************************************)
(* AppearanceConfig, the fields the editor writes, with their defaults.    *)
(***************************************************************************)
DefaultConfig ==
    [ color_scheme                |-> NoScheme,
      fonts_family                |-> DefaultFamily,
      settings_tui                |-> TRUE,
      rename_tab                  |-> TRUE,
      ctrl_click_open_link        |-> TRUE,
      right_click_command_palette |-> TRUE,
      disable_defaults            |-> TRUE,
      leader_enabled              |-> TRUE ]

(***************************************************************************)
(* Key events: KeyCode plus the CONTROL modifier.                          *)
(***************************************************************************)
Key(code, ch, ctrl) == [code |-> code, ch |-> ch, ctrl |-> ctrl]

SpecialCodes ==
    {"Up", "Down", "Left", "Right", "Enter", "Tab", "BackTab", "Esc",
     "Backspace", "F1"}

KeyChars == {"q", "?", "/", "k", "y", "n", "N", "s"}

Keys ==
    {Key(c, "", FALSE) : c \in SpecialCodes}
        \union {Key("Char", ch, FALSE) : ch \in KeyChars}
        \union {Key("Char", "s", TRUE)}

IsChar(key, ch) == key.code = "Char" /\ key.ch = ch

(***************************************************************************)
(* App (app.rs 92-135).                                                    *)
(***************************************************************************)
VARIABLES
    config,            \* the model being edited
    original_config,   \* the baseline snapshot
    current_panel,
    sidebar_index,
    field_index,
    input_mode,
    has_changes,
    status_message,
    should_quit,
    input_buffer,
    theme_index,
    theme_filter,
    filtered_themes,
    font_index,
    font_filter,
    filtered_fonts,
    nkeys              \* key events handled so far

\* The command-line paths of main.rs that never start the editor.
VARIABLES
    script,            \* the configuration file on disk, as a list of chunks
    parse_result,      \* what parse_wezterm_config returned for it
    json,              \* the text written by export_config
    imported           \* what import_config read back from that text

\* One call of a function of config.rs, or of App::new, and what it met.
VARIABLES
    environment,       \* the build, the environment variables, the home
    disk,              \* what stands at each path of the file system
    returned           \* the function called, its arguments and its result

\* History: the selectors as they were when Editing mode was entered.
VARIABLE search_entry

vars ==
    <<config, original_config, current_panel, sidebar_index, field_index,
      input_mode, has_changes, status_message, should_quit, input_buffer,
      theme_index, theme_filter, filtered_themes, font_index, font_filter,
      filtered_fonts, nkeys, script, parse_result, json, imported,
      environment, disk, returned, search_entry>>

fileVars == <<script, parse_result, json, imported>>

callVars == <<environment, disk, returned>>

\* Nothing has been read, exported or imported.
NotRun == [status |-> "NotRun"]

\* The editor runs on the default configuration: no file is involved.
NoFile ==
    /\ script = <<>>
    /\ parse_result = NotRun
    /\ json = NotRun
    /\ imported = NotRun

\* No function of config.rs is followed: the file system plays no part.
NoCall ==
    /\ environment = NotRun
    /\ disk = NotRun
    /\ returned = NotRun

\* status_message: Option<String>, kept by the format string that built it.
Status(kind, name, state) == [kind |-> kind, name |-> name, state |-> state]

NoStatus == Status("none", <<>>, FALSE)

selVars ==
    <<theme_index, theme_filter, filtered_themes, font_index, font_filter,
      filtered_fonts>>

navVars == <<current_panel, sidebar_index, field_index>>

cfgVars == <<config, original_config, has_changes>>

(***************************************************************************)
(* App::new (app.rs 138-186). The configuration loaded is the default one  *)
(* (no configuration file on disk); the panel argument selects the panel.  *)
(***************************************************************************)
\* Panel::from_str on the panel argument; None and unknown names give None.
PanelFromStr(s) ==
    CASE s = "themes" -> "Themes"
      [] s = "colors" -> "Colors"
      [] s = "fonts" -> "Fonts"
      [] s = "window" -> "Window"
      [] s = "cursor" -> "Cursor"
      [] s = "gpu" -> "Gpu"
      [] s = "keybindings" -> "Keybindings"
      [] s = "commands" -> "Keybindings"
      [] OTHER -> "None"

\* The PANEL argument as given on the command line (already lower-cased).
PanelArgs ==
    {"", "themes", "colors", "fonts", "window", "cursor", "gpu", "keys",
     "keybindings", "commands"}

InitialPanel(arg) ==
    IF PanelFromStr(arg) = "None" THEN "Colors" ELSE PanelFromStr(arg)

Init ==
    /\ config = DefaultConfig
    /\ original_config = config
    /\ \E arg \in PanelArgs :
          /\ current_panel = InitialPanel(arg)
          /\ sidebar_index = PanelPosition(InitialPanel(arg))
    /\ field_index = 0
    /\ input_mode = "Normal"
    /\ has_changes = FALSE
    /\ status_message = NoStatus
    /\ should_quit = FALSE
    /\ input_buffer = <<>>
    /\ theme_index = 0
    /\ theme_filter = <<>>
    /\ filtered_themes = available_themes
    /\ font_index = 0
    /\ font_filter = <<>>
    /\ filtered_fonts = available_fonts
    /\ NoFile
    /\ NoCall
    /\ search_entry = NotRun
    /\ nkeys = 0

(***************************************************************************)
(* Field navigation (app.rs 481-523, 589-599).                             *)
(***************************************************************************)
Max(a, b) == IF a >= b THEN a ELSE b

FieldCountOf(panel, themes) ==
    CASE panel = "Themes" -> Max(Len(themes), 1)
      [] panel = "Colors" -> 23
      [] panel = "Fonts" -> 5
      [] panel = "Window" -> 10
      [] panel = "Cursor" -> 5
      [] panel = "Gpu" -> 3
      [] panel = "Keybindings" -> 6

get_field_count == FieldCountOf(current_panel, filtered_themes)

navigate_up ==
    IF field_index = 0
    THEN IF sidebar_index > 0
         THEN /\ sidebar_index' = sidebar_index - 1
              /\ current_panel' = PanelAt(sidebar_index - 1)
              /\ field_index' = field_index
         ELSE UNCHANGED navVars
    ELSE /\ field_index' = Max(field_index - 1, 0)
         /\ UNCHANGED <<current_panel, sidebar_index>>

navigate_down ==
    IF field_index = 0
    THEN IF sidebar_index < Len(PanelAll) - 1
         THEN /\ sidebar_index' = sidebar_index + 1
              /\ current_panel' = PanelAt(sidebar_index + 1)
              /\ field_index' = field_index
         ELSE UNCHANGED navVars
    ELSE /\ field_index' =
               IF field_index < get_field_count THEN field_index + 1
               ELSE field_index
         /\ UNCHANGED <<current_panel, sidebar_index>>

\* next_field wrapping to the sidebar instead of the first field.
next_field_WrapToSidebar ==
    field_index' =
        IF field_index < get_field_count THEN field_index + 1 ELSE 0

next_field ==
    field_index' =
        IF field_index < get_field_count THEN field_index + 1 ELSE 1

\* prev_field wrapping one past the last field.
prev_field_WrapPastEnd ==
    field_index' =
        IF field_index > 1 THEN field_index - 1 ELSE get_field_count + 1

prev_field ==
    field_index' =
        IF field_index > 1 THEN field_index - 1 ELSE get_field_count

(***************************************************************************)
(* Model mutations and save (app.rs 547-587, 601-623, 639-667).            *)
(***************************************************************************)
\* ToggleField with the two mouse bindings exchanged.
ToggleField_MouseSwapped(i) ==
    CASE i = 1 -> "settings_tui"
      [] i = 2 -> "rename_tab"
      [] i = 3 -> "right_click_command_palette"
      [] i = 4 -> "ctrl_click_open_link"
      [] i = 5 -> "disable_defaults"
      [] i = 6 -> "leader_enabled"
      [] OTHER -> "none"

\* The boolean of KeyBindingsConfig that toggle_keybinding maps a field to.
ToggleField(i) ==
    CASE i = 1 -> "settings_tui"
      [] i = 2 -> "rename_tab"
      [] i = 3 -> "ctrl_click_open_link"
      [] i = 4 -> "right_click_command_palette"
      [] i = 5 -> "disable_defaults"
      [] i = 6 -> "leader_enabled"
      [] OTHER -> "none"

\* toggle_keybinding that forgets the dirty flag.
toggle_keybinding_NoDirty ==
    LET f == ToggleField(field_index) IN
    IF f # "none"
    THEN /\ config' = [config EXCEPT ![f] = ~config[f]]
         /\ status_message' = Status("toggled", <<f>>, ~config[f])
         /\ has_changes' = has_changes
    ELSE /\ UNCHANGED <<config, has_changes>>
         /\ status_message' = NoStatus

\* Writes config, has_changes, status_message.
toggle_keybinding ==
    LET f == ToggleField(field_index) IN
    IF f # "none"
    THEN /\ config' = [config EXCEPT ![f] = ~config[f]]
         /\ status_message' = Status("toggled", <<f>>, ~config[f])
         /\ has_changes' = TRUE
    ELSE /\ UNCHANGED <<config, has_changes>>
         /\ status_message' = NoStatus

\* The text an edit starts from: a stub returning String::new().
get_current_field_value == <<>>

\* Writes has_changes, input_buffer; the buffer is not stored anywhere.
apply_edit ==
    /\ has_changes' = TRUE
    /\ input_buffer' = <<>>

\* config::save_config (config.rs 182-194): Ok unless the configuration
\* directory cannot be resolved or created; nothing is written to it.
SaveResults == {"Ok", "Err"}

\* save_config that keeps the old baseline after a successful save.
save_config_StaleBaseline ==
    \E res \in SaveResults :
        IF res = "Ok"
        THEN /\ has_changes' = FALSE
             /\ original_config' = original_config
             /\ status_message' = Status("saved", <<>>, FALSE)
        ELSE /\ UNCHANGED <<has_changes, original_config>>
             /\ status_message' = Status("save_error", <<>>, FALSE)

\* save_config that clears the dirty flag whatever the result.
save_config_ClearsOnError ==
    \E res \in SaveResults :
        IF res = "Ok"
        THEN /\ has_changes' = FALSE
             /\ original_config' = config
             /\ status_message' = Status("saved", <<>>, FALSE)
        ELSE /\ has_changes' = FALSE
             /\ original_config' = original_config
             /\ status_message' = Status("save_error", <<>>, FALSE)

\* Writes has_changes, original_config, status_message.
save_config ==
    \E res \in SaveResults :
        IF res = "Ok"
        THEN /\ has_changes' = FALSE
             /\ original_config' = config
             /\ status_message' = Status("saved", <<>>, FALSE)
        ELSE /\ UNCHANGED <<has_changes, original_config>>
             /\ status_message' = Status("save_error", <<>>, FALSE)

\* update_theme_filter comparing against the filter as typed.
update_theme_filter_CaseSensitive ==
    /\ filtered_themes' = FilterSeq(available_themes, theme_filter')
    /\ theme_index' = 0

\* update_theme_filter that leaves the selection where it was.
update_theme_filter_KeepsIndex ==
    /\ filtered_themes' = FilterSeq(available_themes, ToLowercase(theme_filter'))
    /\ theme_index' = theme_index

\* Reads the filter just assigned; writes filtered_themes, theme_index.
update_theme_filter ==
    /\ filtered_themes' = FilterSeq(available_themes, ToLowercase(theme_filter'))
    /\ theme_index' = 0

\* apply_selected_theme that forgets the dirty flag.
apply_selected_theme_NoDirty ==
    IF theme_index < Len(filtered_themes)
    THEN /\ config' = [config EXCEPT !.color_scheme = filtered_themes[theme_index + 1]]
         /\ has_changes' = has_changes
         /\ status_message' = Status("theme_set", filtered_themes[theme_index + 1], FALSE)
    ELSE /\ UNCHANGED <<config, has_changes>>
         /\ status_message' = NoStatus

\* Writes config, has_changes, status_message.
apply_selected_theme ==
    IF theme_index < Len(filtered_themes)
    THEN /\ config' = [config EXCEPT !.color_scheme = filtered_themes[theme_index + 1]]
         /\ has_changes' = TRUE
         /\ status_message' = Status("theme_set", filtered_themes[theme_index + 1], FALSE)
    ELSE /\ UNCHANGED <<config, has_changes>>
         /\ status_message' = NoStatus

\* Reads the filter just assigned; writes filtered_fonts, font_index.
update_font_filter ==
    /\ filtered_fonts' = FilterSeq(available_fonts, ToLowercase(font_filter'))
    /\ font_index' = 0

\* apply_selected_font that forgets the dirty flag.
apply_selected_font_NoDirty ==
    IF font_index < Len(filtered_fonts)
    THEN /\ config' = [config EXCEPT !.fonts_family = filtered_fonts[font_index + 1]]
         /\ has_changes' = has_changes
         /\ status_message' = Status("font_set", filtered_fonts[font_index + 1], FALSE)
    ELSE /\ UNCHANGED <<config, has_changes>>
         /\ status_message' = NoStatus

\* Writes config, has_changes, status_message.
apply_selected_font ==
    IF font_index < Len(filtered_fonts)
    THEN /\ config' = [config EXCEPT !.fonts_family = filtered_fonts[font_index + 1]]
         /\ has_changes' = TRUE
         /\ status_message' = Status("font_set", filtered_fonts[font_index + 1], FALSE)
    ELSE /\ UNCHANGED <<config, has_changes>>
         /\ status_message' = NoStatus

\* Writes field_index, input_buffer, input_mode, config, has_changes,
\* status_message.
enter_edit_mode ==
    IF field_index = 0
    THEN /\ field_index' = 1
         /\ status_message' = NoStatus
         /\ UNCHANGED <<input_buffer, input_mode, config, has_changes>>
    ELSE IF current_panel = "Fonts" /\ field_index = 1
    THEN /\ field_index' = 6
         /\ status_message' = NoStatus
         /\ UNCHANGED <<input_buffer, input_mode, config, has_changes>>
    ELSE IF current_panel = "Fonts" /\ field_index <= 5
    THEN /\ input_buffer' = get_current_field_value
         /\ input_mode' = "Editing"
         /\ status_message' = NoStatus
         /\ UNCHANGED <<field_index, config, has_changes>>
    ELSE IF current_panel = "Keybindings"
    THEN /\ toggle_keybinding
         /\ UNCHANGED <<field_index, input_buffer, input_mode>>
    ELSE /\ input_buffer' = get_current_field_value
         /\ input_mode' = "Editing"
         /\ status_message' = NoStatus
         /\ UNCHANGED <<field_index, config, has_changes>>

(***************************************************************************)
(* Key handlers (app.rs 232-479). Each writes every variable but nkeys;    *)
(* handle_key has cleared status_message before dispatching.               *)
(***************************************************************************)
IsUp(key) == IsChar(key, "k") \/ key.code = "Up"

IsDown(key) == IsChar(key, "j") \/ key.code = "Down"

IsLeft(key) == IsChar(key, "h") \/ key.code = "Left"

IsEnterEdit(key) == IsChar(key, "l") \/ key.code = "Right" \/ key.code = "Enter"

\* The keys the two selector blocks of handle_normal_mode return on.
IsSelectorKey(key) ==
    IsChar(key, "/") \/ IsUp(key) \/ IsDown(key) \/ key.code = "Enter" \/ IsLeft(key)

\* app.rs 246-278: Themes panel with the selector focused.
normal_theme_selector(key) ==
    IF IsChar(key, "/")
    THEN /\ input_mode' = "Editing"
         /\ input_buffer' = theme_filter
         /\ status_message' = NoStatus
         /\ UNCHANGED <<cfgVars, navVars, selVars, should_quit>>
    ELSE IF IsUp(key)
    THEN /\ theme_index' = IF theme_index > 0 THEN theme_index - 1 ELSE theme_index
         /\ status_message' = NoStatus
         /\ UNCHANGED <<cfgVars, navVars, should_quit, input_mode, input_buffer,
                        theme_filter, filtered_themes, font_index, font_filter,
                        filtered_fonts>>
    ELSE IF IsDown(key)
    THEN /\ theme_index' =
               IF theme_index + 1 < Len(filtered_themes) THEN theme_index + 1
               ELSE theme_index
         /\ status_message' = NoStatus
         /\ UNCHANGED <<cfgVars, navVars, should_quit, input_mode, input_buffer,
                        theme_filter, filtered_themes, font_index, font_filter,
                        filtered_fonts>>
    ELSE IF key.code = "Enter"
    THEN /\ apply_selected_theme
         /\ UNCHANGED <<original_config, navVars, selVars, should_quit,
                        input_mode, input_buffer>>
    ELSE /\ field_index' = 0
         /\ status_message' = NoStatus
         /\ UNCHANGED <<cfgVars, current_panel, sidebar_index, selVars,
                        should_quit, input_mode, input_buffer>>

\* app.rs 281-313: Fonts panel with the font selector focused.
normal_font_selector(key) ==
    IF IsChar(key, "/")
    THEN /\ input_mode' = "Editing"
         /\ input_buffer' = font_filter
         /\ status_message' = NoStatus
         /\ UNCHANGED <<cfgVars, navVars, selVars, should_quit>>
    ELSE IF IsUp(key)
    THEN /\ font_index' = IF font_index > 0 THEN font_index - 1 ELSE font_index
         /\ status_message' = NoStatus
         /\ UNCHANGED <<cfgVars, navVars, should_quit, input_mode, input_buffer,
                        theme_index, theme_filter, filtered_themes, font_filter,
                        filtered_fonts>>
    ELSE IF IsDown(key)
    THEN /\ font_index' =
               IF font_index + 1 < Len(filtered_fonts) THEN font_index + 1
               ELSE font_index
         /\ status_message' = NoStatus
         /\ UNCHANGED <<cfgVars, navVars, should_quit, input_mode, input_buffer,
                        theme_index, theme_filter, filtered_themes, font_filter,
                        filtered_fonts>>
    ELSE IF key.code = "Enter"
    THEN /\ apply_selected_font
         /\ UNCHANGED <<original_config, navVars, selVars, should_quit,
                        input_mode, input_buffer>>
    ELSE /\ field_index' = 1
         /\ status_message' = NoStatus
         /\ UNCHANGED <<cfgVars, current_panel, sidebar_index, selVars,
                        should_quit, input_mode, input_buffer>>

\* normal_quit that never asks for confirmation.
normal_quit_NoConfirm ==
    /\ should_quit' = TRUE
    /\ input_mode' = input_mode
    /\ status_message' = NoStatus
    /\ UNCHANGED <<cfgVars, navVars, selVars, input_buffer>>

\* app.rs 317-330: q and Escape.
normal_quit ==
    /\ IF has_changes
       THEN input_mode' = "Confirm" /\ should_quit' = should_quit
       ELSE should_quit' = TRUE /\ input_mode' = input_mode
    /\ status_message' = NoStatus
    /\ UNCHANGED <<cfgVars, navVars, selVars, input_buffer>>

\* app.rs 315-373: the general key table of Normal mode.
normal_general(key) ==
    IF IsChar(key, "q") \/ key.code = "Esc"
    THEN normal_quit
    ELSE IF IsChar(key, "s") /\ key.ctrl
    THEN /\ save_config
         /\ UNCHANGED <<config, navVars, selVars, should_quit, input_mode,
                        input_buffer>>
    ELSE IF IsChar(key, "?")
    THEN /\ input_mode' = "Help"
         /\ status_message' = NoStatus
         /\ UNCHANGED <<cfgVars, navVars, selVars, should_quit, input_buffer>>
    ELSE IF IsUp(key)
    THEN /\ navigate_up
         /\ status_message' = NoStatus
         /\ UNCHANGED <<cfgVars, selVars, should_quit, input_mode, input_buffer>>
    ELSE IF IsDown(key)
    THEN /\ navigate_down
         /\ status_message' = NoStatus
         /\ UNCHANGED <<cfgVars, selVars, should_quit, input_mode, input_buffer>>
    ELSE IF IsLeft(key)
    THEN /\ field_index' = 0
         /\ status_message' = NoStatus
         /\ UNCHANGED <<cfgVars, current_panel, sidebar_index, selVars,
                        should_quit, input_mode, input_buffer>>
    ELSE IF IsEnterEdit(key)
    THEN /\ enter_edit_mode
         /\ UNCHANGED <<original_config, current_panel, sidebar_index, selVars,
                        should_quit>>
    ELSE IF key.code = "Tab"
    THEN /\ next_field
         /\ status_message' = NoStatus
         /\ UNCHANGED <<cfgVars, current_panel, sidebar_index, selVars,
                        should_quit, input_mode, input_buffer>>
    ELSE IF key.code = "BackTab"
    THEN /\ prev_field
         /\ status_message' = NoStatus
         /\ UNCHANGED <<cfgVars, current_panel, sidebar_index, selVars,
                        should_quit, input_mode, input_buffer>>
    ELSE /\ status_message' = NoStatus
         /\ UNCHANGED <<cfgVars, navVars, selVars, should_quit, input_mode,
                        input_buffer>>

handle_normal_mode(key) ==
    IF current_panel = "Themes" /\ field_index > 0 /\ IsSelectorKey(key)
    THEN normal_theme_selector(key)
    ELSE IF current_panel = "Fonts" /\ field_index > 5 /\ IsSelectorKey(key)
    THEN normal_font_selector(key)
    ELSE normal_general(key)

\* String::pop: drops the last character, if any.
Pop(s) == IF Len(s) = 0 THEN s ELSE SubSeq(s, 1, Len(s) - 1)

\* app.rs 378-405: the theme search box.
editing_theme_search(key) ==
    /\ status_message' = NoStatus
    /\ UNCHANGED <<cfgVars, navVars, should_quit, font_index, font_filter,
                   filtered_fonts>>
    /\ IF key.code = "Esc"
       THEN /\ input_mode' = "Normal"
            /\ input_buffer' = <<>>
            /\ UNCHANGED <<theme_index, theme_filter, filtered_themes>>
       ELSE IF key.code = "Enter"
       THEN /\ theme_filter' = input_buffer
            /\ update_theme_filter
            /\ input_mode' = "Normal"
            /\ input_buffer' = <<>>
       ELSE IF key.code = "Char"
       THEN /\ input_buffer' = Append(input_buffer, key.ch)
            /\ theme_filter' = input_buffer'
            /\ update_theme_filter
            /\ input_mode' = input_mode
       ELSE IF key.code = "Backspace"
       THEN /\ input_buffer' = Pop(input_buffer)
            /\ theme_filter' = input_buffer'
            /\ update_theme_filter
            /\ input_mode' = input_mode
       ELSE UNCHANGED <<input_mode, input_buffer, theme_index, theme_filter,
                        filtered_themes>>

\* app.rs 408-435: the font search box.
editing_font_search(key) ==
    /\ status_message' = NoStatus
    /\ UNCHANGED <<cfgVars, navVars, should_quit, theme_index, theme_filter,
                   filtered_themes>>
    /\ IF key.code = "Esc"
       THEN /\ input_mode' = "Normal"
            /\ input_buffer' = <<>>
            /\ UNCHANGED <<font_index, font_filter, filtered_fonts>>
       ELSE IF key.code = "Enter"
       THEN /\ font_filter' = input_buffer
            /\ update_font_filter
            /\ input_mode' = "Normal"
            /\ input_buffer' = <<>>
       ELSE IF key.code = "Char"
       THEN /\ input_buffer' = Append(input_buffer, key.ch)
            /\ font_filter' = input_buffer'
            /\ update_font_filter
            /\ input_mode' = input_mode
       ELSE IF key.code = "Backspace"
       THEN /\ input_buffer' = Pop(input_buffer)
            /\ font_filter' = input_buffer'
            /\ update_font_filter
            /\ input_mode' = input_mode
       ELSE UNCHANGED <<input_mode, input_buffer, font_index, font_filter,
                        filtered_fonts>>

\* editing_field whose Escape commits like Enter.
editing_field_EscCommits(key) ==
    /\ status_message' = NoStatus
    /\ UNCHANGED <<config, original_config, navVars, selVars, should_quit>>
    /\ IF key.code = "Esc" \/ key.code = "Enter"
       THEN /\ apply_edit
            /\ input_mode' = "Normal"
       ELSE IF key.code = "Char"
       THEN /\ input_buffer' = Append(input_buffer, key.ch)
            /\ UNCHANGED <<input_mode, has_changes>>
       ELSE IF key.code = "Backspace"
       THEN /\ input_buffer' = Pop(input_buffer)
            /\ UNCHANGED <<input_mode, has_changes>>
       ELSE UNCHANGED <<input_mode, input_buffer, has_changes>>

\* app.rs 437-453: editing a plain field.
editing_field(key) ==
    /\ status_message' = NoStatus
    /\ UNCHANGED <<config, original_config, navVars, selVars, should_quit>>
    /\ IF key.code = "Esc"
       THEN /\ input_mode' = "Normal"
            /\ input_buffer' = <<>>
            /\ has_changes' = has_changes
       ELSE IF key.code = "Enter"
       THEN /\ apply_edit
            /\ input_mode' = "Normal"
       ELSE IF key.code = "Char"
       THEN /\ input_buffer' = Append(input_buffer, key.ch)
            /\ UNCHANGED <<input_mode, has_changes>>
       ELSE IF key.code = "Backspace"
       THEN /\ input_buffer' = Pop(input_buffer)
            /\ UNCHANGED <<input_mode, has_changes>>
       ELSE UNCHANGED <<input_mode, input_buffer, has_changes>>

handle_editing_mode(key) ==
    IF current_panel = "Themes"
    THEN editing_theme_search(key)
    ELSE IF current_panel = "Fonts" /\ field_index > 5
    THEN editing_font_search(key)
    ELSE editing_field(key)

\* app.rs 456-463.
handle_help_mode(key) ==
    /\ input_mode' =
          IF key.code = "Esc" \/ IsChar(key, "q") \/ IsChar(key, "?")
          THEN "Normal" ELSE input_mode
    /\ status_message' = NoStatus
    /\ UNCHANGED <<cfgVars, navVars, selVars, should_quit, input_buffer>>

\* handle_confirm_mode whose s quits only after a successful save.
handle_confirm_mode_StaysOnError(key) ==
    IF IsChar(key, "y") \/ IsChar(key, "Y")
    THEN /\ should_quit' = TRUE
         /\ status_message' = NoStatus
         /\ UNCHANGED <<cfgVars, navVars, selVars, input_mode, input_buffer>>
    ELSE IF IsChar(key, "n") \/ IsChar(key, "N") \/ key.code = "Esc"
    THEN /\ input_mode' = "Normal"
         /\ status_message' = NoStatus
         /\ UNCHANGED <<cfgVars, navVars, selVars, should_quit, input_buffer>>
    ELSE IF IsChar(key, "s") \/ IsChar(key, "S")
    THEN /\ save_config
         /\ should_quit' = (status_message'.kind = "saved")
         /\ UNCHANGED <<config, navVars, selVars, input_mode, input_buffer>>
    ELSE /\ status_message' = NoStatus
         /\ UNCHANGED <<cfgVars, navVars, selVars, should_quit, input_mode,
                        input_buffer>>

\* app.rs 465-479.
handle_confirm_mode(key) ==
    IF IsChar(key, "y") \/ IsChar(key, "Y")
    THEN /\ should_quit' = TRUE
         /\ status_message' = NoStatus
         /\ UNCHANGED <<cfgVars, navVars, selVars, input_mode, input_buffer>>
    ELSE IF IsChar(key, "n") \/ IsChar(key, "N") \/ key.code = "Esc"
    THEN /\ input_mode' = "Normal"
         /\ status_message' = NoStatus
         /\ UNCHANGED <<cfgVars, navVars, selVars, should_quit, input_buffer>>
    ELSE IF IsChar(key, "s") \/ IsChar(key, "S")
    THEN /\ save_config
         /\ should_quit' = TRUE
         /\ UNCHANGED <<config, navVars, selVars, input_mode, input_buffer>>
    ELSE /\ status_message' = NoStatus
         /\ UNCHANGED <<cfgVars, navVars, selVars, should_quit, input_mode,
                        input_buffer>>

\* app.rs 232-242. The event loop (212-230) reads keys until should_quit.
handle_key(key) ==
    /\ ~should_quit
    /\ nkeys < MaxKeys
    /\ nkeys' = nkeys + 1
    /\ UNCHANGED <<fileVars, callVars>>
    /\ CASE input_mode = "Normal" -> handle_normal_mode(key)
         [] input_mode = "Editing" -> handle_editing_mode(key)
         [] input_mode = "Help" -> handle_help_mode(key)
         [] input_mode = "Confirm" -> handle_confirm_mode(key)
    /\ search_entry' =
          IF input_mode' # "Editing" THEN NotRun
          ELSE IF input_mode = "Editing" THEN search_entry
          ELSE [theme_filter |-> theme_filter,
                filtered_themes |-> filtered_themes,
                theme_index |-> theme_index,
                font_filter |-> font_filter,
                filtered_fonts |-> filtered_fonts,
                font_index |-> font_index]

KeyInNormal == \E key \in Keys : input_mode = "Normal" /\ handle_key(key)

KeyInEditing == \E key \in Keys : input_mode = "Editing" /\ handle_key(key)

KeyInHelp == \E key \in Keys : input_mode = "Help" /\ handle_key(key)

KeyInConfirm == \E key \in Keys : input_mode = "Confirm" /\ handle_key(key)

Next == KeyInNormal \/ KeyInEditing \/ KeyInHelp \/ KeyInConfirm

Spec == Init /\ [][Next]_vars

(***************************************************************************)
(* The extraction of a configuration from Lua text (lua/parser.rs). Text   *)
(* is a sequence of one-character strings. The regular expressions of the  *)
(* parser are written as data and matched as the regex crate matches them: *)
(* the leftmost match wins, repetitions are greedy. Every repetition used  *)
(* is followed by something outside its class, so no backtracking into a   *)
(* repetition can succeed where the greedy choice failed.                  *)
(***************************************************************************)
\* Option<T>.
None == <<>>

Some(x) == <<x>>

\* \s
IsSpace(c) == c \in {" ", "\t", "\n", "\r"}

\* \d
IsDigit(c) == c \in {"0", "1", "2", "3", "4", "5", "6", "7", "8", "9"}

\* ["']
IsQuote(c) == c \in {"\"", "'"}

\* [\.\[\]"']
IsSeparator(c) == c \in {".", "[", "]", "\"", "'"}

\* The position after the longest run of \s from position i.
RECURSIVE SkipSpace(_, _)
SkipSpace(s, i) ==
    IF i <= Len(s) /\ IsSpace(s[i]) THEN SkipSpace(s, i + 1) ELSE i

RECURSIVE SkipDigits(_, _)
SkipDigits(s, i) ==
    IF i <= Len(s) /\ IsDigit(s[i]) THEN SkipDigits(s, i + 1) ELSE i

RECURSIVE SkipSeparators(_, _)
SkipSeparators(s, i) ==
    IF i <= Len(s) /\ IsSeparator(s[i]) THEN SkipSeparators(s, i + 1) ELSE i

\* [^"']+
RECURSIVE SkipNonQuote(_, _)
SkipNonQuote(s, i) ==
    IF i <= Len(s) /\ ~IsQuote(s[i]) THEN SkipNonQuote(s, i + 1) ELSE i

\* [^}]+
RECURSIVE SkipNonBrace(_, _)
SkipNonBrace(s, i) ==
    IF i <= Len(s) /\ s[i] # "}" THEN SkipNonBrace(s, i + 1) ELSE i

\* The literal lit stands in s at position i.
StartsWith(s, i, lit) ==
    /\ i + Len(lit) - 1 <= Len(s)
    /\ s[i] = lit[1]
    /\ SubSeq(s, i, i + Len(lit) - 1) = lit

\* The pieces a pattern is made of before its capture group.
Lit(text) == <<"lit", text>>

\* (?:text)?
Opt(text) == <<"opt", text>>

\* (?:a|b)
Alt(a, b) == <<"alt", a, b>>

\* \s*
Ws == <<"ws">>

\* \s*[\.\[\]"']*\s*, the joint of a nested key path
Joint == <<"joint">>

\* The position after the pieces when they match s from position i, else 0.
RECURSIVE MatchPieces(_, _, _)
MatchPieces(s, i, pieces) ==
    IF pieces = <<>> THEN i
    ELSE LET p == Head(pieces)
             rest == Tail(pieces)
         IN  CASE p[1] = "lit" ->
                    IF StartsWith(s, i, p[2])
                    THEN MatchPieces(s, i + Len(p[2]), rest) ELSE 0
               [] p[1] = "opt" ->
                    IF StartsWith(s, i, p[2])
                          /\ MatchPieces(s, i + Len(p[2]), rest) # 0
                    THEN MatchPieces(s, i + Len(p[2]), rest)
                    ELSE MatchPieces(s, i, rest)
               [] p[1] = "alt" ->
                    IF StartsWith(s, i, p[2])
                          /\ MatchPieces(s, i + Len(p[2]), rest) # 0
                    THEN MatchPieces(s, i + Len(p[2]), rest)
                    ELSE IF StartsWith(s, i, p[3])
                    THEN MatchPieces(s, i + Len(p[3]), rest) ELSE 0
               [] p[1] = "ws" -> MatchPieces(s, SkipSpace(s, i), rest)
               [] p[1] = "joint" ->
                    MatchPieces(s, SkipSpace(s, SkipSeparators(s, SkipSpace(s, i))),
                                rest)

\* ["']([^"']+)["'] at position j: the text between the quotes.
QuotedAt(s, j) ==
    IF j <= Len(s) /\ IsQuote(s[j])
    THEN LET e == SkipNonQuote(s, j + 1)
         IN  IF e > j + 1 /\ e <= Len(s) THEN Some(SubSeq(s, j + 1, e - 1))
             ELSE None
    ELSE None

\* (\d+) at position j.
DigitsAt(s, j) ==
    LET e == SkipDigits(s, j)
    IN  IF e > j THEN Some(SubSeq(s, j, e - 1)) ELSE None

\* (\d+(?:\.\d+)?) at position j.
DecimalAt(s, j) ==
    LET e == SkipDigits(s, j)
        f == SkipDigits(s, e + 1)
    IN  IF e = j THEN None
        ELSE IF e <= Len(s) /\ s[e] = "." /\ f > e + 1
        THEN Some(SubSeq(s, j, f - 1))
        ELSE Some(SubSeq(s, j, e - 1))

\* (true|false) at position j.
BoolAt(s, j) ==
    IF StartsWith(s, j, <<"t", "r", "u", "e">>) THEN Some(<<"t", "r", "u",
        "e">>)
    ELSE IF StartsWith(s, j, <<"f", "a", "l", "s", "e">>) THEN Some(<<"f",
        "a", "l", "s", "e">>)
    ELSE None

\* \{\s*([^}]+)\s*\} at position j: the text up to the next closing brace,
\* without the leading white space unless the group would be left empty.
BracedAt(s, j) ==
    IF j <= Len(s) /\ s[j] = "{"
    THEN LET e == SkipNonBrace(s, j + 1)
             b == SkipSpace(s, j + 1)
         IN  IF e > j + 1 /\ e <= Len(s)
             THEN Some(SubSeq(s, IF b < e THEN b ELSE e - 1, e - 1))
             ELSE None
    ELSE None

\* A pattern: its pieces, then its one capture group.
Regex(pieces, group) == [pieces |-> pieces, group |-> group]

\* The capture group at position j, the position the pieces end at; there
\* is none when the pieces did not match (j = 0).
GroupAt(group, s, j) ==
    CASE j = 0 -> None
      [] group = "quoted" -> QuotedAt(s, j)
      [] group = "digits" -> DigitsAt(s, j)
      [] group = "decimal" -> DecimalAt(s, j)
      [] group = "bool" -> BoolAt(s, j)
      [] group = "braced" -> BracedAt(s, j)

\* Group 1 of the match of re that starts at position i, if there is one.
MatchAt(re, s, i) == GroupAt(re.group, s, MatchPieces(s, i, re.pieces))

\* The first of the matches found, matches[i] being the one that starts at
\* position i.
Leftmost(matches) ==
    LET starts == {i \in DOMAIN matches : matches[i] # None}
    IN  IF starts = {} THEN None
        ELSE matches[CHOOSE i \in starts : \A k \in starts : i <= k]

\* Regex::captures: group 1 of the leftmost match.
Captures(re, s) == Leftmost([i \in 1..Len(s) |-> MatchAt(re, s, i)])

(***************************************************************************)
(* Helper functions (parser.rs 391-425) and extract_color_array (131-150). *)
(* Regex::new cannot fail on the fixed patterns, so `.ok()?` never returns. *)
(***************************************************************************)
extract_string_value(content, pattern) == Captures(pattern, content)

\* An f32 read from decimal digits: the digits before and after the point,
\* without leading and trailing zeros. Numerals short enough to be told
\* apart by an f32 stay distinct.
RECURSIVE StripLeadingZeros(_)
StripLeadingZeros(d) ==
    IF d # <<>> /\ Head(d) = "0" THEN StripLeadingZeros(Tail(d)) ELSE d

RECURSIVE StripTrailingZeros(_)
StripTrailingZeros(d) ==
    IF d # <<>> /\ d[Len(d)] = "0"
    THEN StripTrailingZeros(SubSeq(d, 1, Len(d) - 1)) ELSE d

F32(int, frac) ==
    [int |-> StripLeadingZeros(int), frac |-> StripTrailingZeros(frac)]

\* f32::INFINITY
Infinity == [int |-> <<"inf">>, frac |-> <<>>]

\* str::parse::<f32> on text matched by \d+(?:\.\d+)?. f32::MAX has 39
\* digits before the point: a numeral of 40 or more reads as infinity
\* (numerals of exactly 39 digits are not drawn).
ParseF32(text) ==
    LET e == SkipDigits(text, 1)
        val == F32(SubSeq(text, 1, e - 1), SubSeq(text, e + 1, Len(text)))
    IN  IF Len(val.int) >= 40 THEN Infinity ELSE val

DigitValue(c) ==
    CASE c = "0" -> 0 [] c = "1" -> 1 [] c = "2" -> 2 [] c = "3" -> 3
      [] c = "4" -> 4 [] c = "5" -> 5 [] c = "6" -> 6 [] c = "7" -> 7
      [] c = "8" -> 8 [] c = "9" -> 9

RECURSIVE DigitsValue(_)
DigitsValue(d) ==
    IF d = <<>> THEN 0
    ELSE 10 * DigitsValue(SubSeq(d, 1, Len(d) - 1)) + DigitValue(d[Len(d)])

\* The spacing of the f32 values around the whole number n: an f32 has 24
\* bits of precision.
RECURSIVE Ulp(_, _)
Ulp(n, step) == IF n \div step < 16777216 THEN step ELSE Ulp(n, 2 * step)

\* The f32 a whole number reads as: the nearest one, ties to the even one.
RoundF32(n) ==
    LET step == Ulp(n, 1)
        q == n \div step
        r == n % step
    IN  IF 2 * r > step \/ (2 * r = step /\ q % 2 = 1)
        THEN (q + 1) * step ELSE q * step

\* `val as u32` of the f32 read from the digits: the fraction is dropped
\* (whole numbers below 2^31).
AsU32(val) == RoundF32(DigitsValue(val.int))

extract_number_value(content, pattern) ==
    LET Parse(caps) == IF caps = None THEN None ELSE Some(ParseF32(caps[1]))
    IN  Parse(Captures(pattern, content))

extract_bool_value(content, pattern) ==
    LET Parse(caps) ==
            IF caps = None THEN None
            ELSE IF caps[1] = <<"t", "r", "u", "e">> THEN Some(TRUE)
            ELSE IF caps[1] = <<"f", "a", "l", "s", "e">> THEN Some(FALSE)
            ELSE None
    IN  Parse(Captures(pattern, content))

\* keys.join(r#"\s*[\.\[\]"']*\s*"#)
RECURSIVE key_path(_)
key_path(keys) ==
    IF Len(keys) = 1 THEN <<Lit(keys[1])>>
    ELSE <<Lit(keys[1]), Joint>> \o key_path(Tail(keys))

extract_nested_string(content, keys) ==
    extract_string_value(content,
        Regex(key_path(keys) \o <<Ws, Lit(<<"=">>), Ws>>, "quoted"))

extract_nested_number(content, keys) ==
    extract_number_value(content,
        Regex(key_path(keys) \o <<Ws, Lit(<<"=">>), Ws>>, "decimal"))

\* captures_iter of ["']([^"']+)["']: the successive matches, left to right,
\* each search resuming after the previous match.
RECURSIVE QuotedStrings(_, _)
QuotedStrings(s, i) ==
    LET Rest(found) ==
            IF found = None THEN QuotedStrings(s, i + 1)
            ELSE <<found[1]>> \o QuotedStrings(s, i + Len(found[1]) + 2)
    IN  IF i > Len(s) THEN <<>> ELSE Rest(QuotedAt(s, i))

\* extract_color_array that cuts a longer array down to its first 8 strings.
extract_color_array_FirstEight(content, name) ==
    LET Collect(colors) ==
            IF colors = <<>> THEN None
            ELSE IF Len(colors) > 8 THEN Some(SubSeq(colors, 1, 8))
            ELSE Some(colors)
        Strings(caps) ==
            IF caps = None THEN None ELSE Collect(QuotedStrings(caps[1], 1))
    IN  Strings(Captures(Regex(<<Lit(name), Ws, Lit(<<"=">>), Ws>>, "braced"),
                         content))

extract_color_array(content, name) ==
    LET Collect(colors) == IF colors = <<>> THEN None ELSE Some(colors)
        Strings(caps) ==
            IF caps = None THEN None ELSE Collect(QuotedStrings(caps[1], 1))
    IN  Strings(Captures(Regex(<<Lit(name), Ws, Lit(<<"=">>), Ws>>, "braced"),
                         content))

(***************************************************************************)
(* The enumerations and their decoders (parser.rs 187-209, 286-350,        *)
(* 370-385). A variant is written by its name.                             *)
(***************************************************************************)
UpperChar(c) ==
    CASE c = "a" -> "A" [] c = "b" -> "B" [] c = "c" -> "C" [] c = "d" -> "D"
      [] c = "e" -> "E" [] c = "f" -> "F" [] c = "g" -> "G" [] c = "h" -> "H"
      [] c = "i" -> "I" [] c = "j" -> "J" [] c = "k" -> "K" [] c = "l" -> "L"
      [] c = "m" -> "M" [] c = "n" -> "N" [] c = "o" -> "O" [] c = "p" -> "P"
      [] c = "q" -> "Q" [] c = "r" -> "R" [] c = "s" -> "S" [] c = "t" -> "T"
      [] c = "u" -> "U" [] c = "v" -> "V" [] c = "w" -> "W" [] c = "x" -> "X"
      [] c = "y" -> "Y" [] c = "z" -> "Z" [] OTHER -> c

ToUppercase(s) == [i \in 1..Len(s) |-> UpperChar(s[i])]

\* The enumerations (models/config.rs), each the set of its variants.
FontWeight ==
    {"Thin", "ExtraLight", "Light", "Regular", "Medium", "DemiBold", "Bold",
     "ExtraBold", "Black"}

FreetypeTarget == {"Normal", "Light", "Mono", "HorizontalLcd"}

WindowDecorations ==
    {"Full", "Resize", "None", "Title", "IntegratedButtonsResize"}

CloseConfirmation == {"AlwaysPrompt", "NeverPrompt"}

CursorStyle ==
    {"SteadyBlock", "BlinkingBlock", "SteadyUnderline", "BlinkingUnderline",
     "SteadyBar", "BlinkingBar"}

EaseFunction == {"Linear", "EaseIn", "EaseOut", "EaseInOut", "Constant"}

FrontEnd == {"WebGpu", "OpenGL", "Software"}

PowerPreference == {"LowPower", "HighPerformance"}

parse_font_weight(s) ==
    LET l == ToLowercase(s)
    IN  CASE l = <<"t", "h", "i", "n">> -> Some("Thin")
          [] l = <<"e", "x", "t", "r", "a", "l", "i", "g", "h",
              "t">> \/ l = <<"e", "x", "t", "r", "a", "-", "l", "i", "g", "h",
              "t">> -> Some("ExtraLight")
          [] l = <<"l", "i", "g", "h", "t">> -> Some("Light")
          [] l = <<"r", "e", "g", "u", "l", "a", "r">> \/ l = <<"n", "o", "r",
              "m", "a", "l">> -> Some("Regular")
          [] l = <<"m", "e", "d", "i", "u", "m">> -> Some("Medium")
          [] l = <<"d", "e", "m", "i", "b", "o", "l", "d">> \/ l = <<"d", "e",
              "m", "i", "-", "b", "o", "l", "d">> \/ l = <<"s", "e", "m", "i",
              "b", "o", "l", "d">>
                \/ l = <<"s", "e", "m", "i", "-", "b", "o", "l",
                    "d">> -> Some("DemiBold")
          [] l = <<"b", "o", "l", "d">> -> Some("Bold")
          [] l = <<"e", "x", "t", "r", "a", "b", "o", "l", "d">> \/ l = <<"e",
              "x", "t", "r", "a", "-", "b", "o", "l",
              "d">> -> Some("ExtraBold")
          [] l = <<"b", "l", "a", "c", "k">> \/ l = <<"h", "e", "a", "v",
              "y">> -> Some("Black")
          [] OTHER -> None

parse_freetype_target(s) ==
    LET l == ToLowercase(s)
    IN  CASE l = <<"n", "o", "r", "m", "a", "l">> -> Some("Normal")
          [] l = <<"l", "i", "g", "h", "t">> -> Some("Light")
          [] l = <<"m", "o", "n", "o">> -> Some("Mono")
          [] l = <<"h", "o", "r", "i", "z", "o", "n", "t", "a", "l", "l", "c",
              "d">> \/ l = <<"h", "o", "r", "i", "z", "o", "n", "t", "a", "l",
              "_", "l", "c", "d">> -> Some("HorizontalLcd")
          [] OTHER -> None

\* parse_window_decorations whose fallback is the default of the field.
parse_window_decorations_KeepsDefault(s) ==
    LET u == ToUppercase(s)
    IN  CASE u = <<"F", "U", "L", "L">> -> "Full"
          [] u = <<"R", "E", "S", "I", "Z", "E">> -> "Resize"
          [] u = <<"N", "O", "N", "E">> -> "None"
          [] u = <<"T", "I", "T", "L", "E">> -> "Title"
          [] OTHER -> "IntegratedButtonsResize"

parse_window_decorations(s) ==
    LET u == ToUppercase(s)
    IN  CASE u = <<"F", "U", "L", "L">> -> "Full"
          [] u = <<"R", "E", "S", "I", "Z", "E">> -> "Resize"
          [] u = <<"N", "O", "N", "E">> -> "None"
          [] u = <<"T", "I", "T", "L", "E">> -> "Title"
          [] u = <<"I", "N", "T", "E", "G", "R", "A", "T", "E", "D", "_", "B",
              "U", "T", "T", "O", "N", "S", "|", "R", "E", "S", "I", "Z",
              "E">> -> "IntegratedButtonsResize"
          [] OTHER -> "Full"

parse_close_confirmation(s) ==
    CASE s = <<"A", "l", "w", "a", "y", "s", "P", "r", "o", "m", "p",
        "t">> -> "AlwaysPrompt"
      [] s = <<"N", "e", "v", "e", "r", "P", "r", "o", "m", "p",
          "t">> -> "NeverPrompt"
      [] OTHER -> "NeverPrompt"

parse_cursor_style(s) ==
    CASE s = <<"S", "t", "e", "a", "d", "y", "B", "l", "o", "c",
        "k">> -> "SteadyBlock"
      [] s = <<"B", "l", "i", "n", "k", "i", "n", "g", "B", "l", "o", "c",
          "k">> -> "BlinkingBlock"
      [] s = <<"S", "t", "e", "a", "d", "y", "U", "n", "d", "e", "r", "l",
          "i", "n", "e">> -> "SteadyUnderline"
      [] s = <<"B", "l", "i", "n", "k", "i", "n", "g", "U", "n", "d", "e",
          "r", "l", "i", "n", "e">> -> "BlinkingUnderline"
      [] s = <<"S", "t", "e", "a", "d", "y", "B", "a", "r">> -> "SteadyBar"
      [] s = <<"B", "l", "i", "n", "k", "i", "n", "g", "B", "a",
          "r">> -> "BlinkingBar"
      [] OTHER -> "BlinkingBlock"

parse_ease_function(s) ==
    CASE s = <<"L", "i", "n", "e", "a", "r">> -> "Linear"
      [] s = <<"E", "a", "s", "e", "I", "n">> -> "EaseIn"
      [] s = <<"E", "a", "s", "e", "O", "u", "t">> -> "EaseOut"
      [] s = <<"E", "a", "s", "e", "I", "n", "O", "u", "t">> -> "EaseInOut"
      [] s = <<"C", "o", "n", "s", "t", "a", "n", "t">> -> "Constant"
      [] OTHER -> "EaseOut"

parse_front_end(s) ==
    CASE s = <<"W", "e", "b", "G", "p", "u">> -> "WebGpu"
      [] s = <<"O", "p", "e", "n", "G", "L">> -> "OpenGL"
      [] s = <<"S", "o", "f", "t", "w", "a", "r", "e">> -> "Software"
      [] OTHER -> "WebGpu"

parse_power_preference(s) ==
    CASE s = <<"L", "o", "w", "P", "o", "w", "e", "r">> -> "LowPower"
      [] s = <<"H", "i", "g", "h", "P", "e", "r", "f", "o", "r", "m", "a",
          "n", "c", "e">> -> "HighPerformance"
      [] OTHER -> "HighPerformance"

(***************************************************************************)
(* AppearanceConfig::default() (models/config.rs 510-889). Of the eight    *)
(* keybinding categories only key_tables is kept; the others are records   *)
(* of KeyBinding entries of the same shape, which the parser never writes. *)
(***************************************************************************)
TabColors(bg, fg, italic) == [bg_color |-> bg, fg_color |-> fg, italic |-> italic]

TabBarColorsDefault ==
    [ background         |-> <<"r", "g", "b", "a", "(", "0", ",", " ", "0",
        ",", " ", "0", ",", " ", "0", ".", "4", ")">>,
      active_tab         |-> TabColors(<<"#", "5", "8", "5", "b", "7", "0">>,
          <<"#", "c", "d", "d", "6", "f", "4">>, None),
      inactive_tab       |-> TabColors(<<"#", "3", "1", "3", "2", "4", "4">>,
          <<"#", "b", "a", "c", "2", "d", "e">>, None),
      inactive_tab_hover |-> TabColors(<<"#", "3", "1", "3", "2", "4", "4">>,
          <<"#", "c", "d", "d", "6", "f", "4">>, None),
      new_tab            |-> TabColors(<<"#", "1", "f", "1", "f", "2", "8">>,
          <<"#", "c", "d", "d", "6", "f", "4">>, None),
      new_tab_hover      |-> TabColors(<<"#", "1", "8", "1", "8", "2", "5">>,
          <<"#", "c", "d", "d", "6", "f", "4">>, Some(TRUE)) ]

ColorSchemeDefault ==
    [ foreground      |-> <<"#", "c", "d", "d", "6", "f", "4">>,
      background      |-> <<"#", "1", "f", "1", "f", "2", "8">>,
      cursor_bg       |-> <<"#", "f", "5", "e", "0", "d", "c">>,
      cursor_border   |-> <<"#", "f", "5", "e", "0", "d", "c">>,
      cursor_fg       |-> <<"#", "1", "1", "1", "1", "1", "b">>,
      selection_bg    |-> <<"#", "5", "8", "5", "b", "7", "0">>,
      selection_fg    |-> <<"#", "c", "d", "d", "6", "f", "4">>,
      ansi            |-> << <<"#", "0", "C", "0", "C", "0", "C">>, <<"#",
          "C", "5", "0", "F", "1", "F">>, <<"#", "1", "3", "A", "1", "0",
          "E">>, <<"#", "C", "1", "9", "C", "0", "0">>,
                             <<"#", "0", "0", "3", "7", "D", "A">>, <<"#",
                                 "8", "8", "1", "7", "9", "8">>, <<"#", "3",
                                 "A", "9", "6", "D", "D">>, <<"#", "C", "C",
                                 "C", "C", "C", "C">> >>,
      brights         |-> << <<"#", "7", "6", "7", "6", "7", "6">>, <<"#",
          "E", "7", "4", "8", "5", "6">>, <<"#", "1", "6", "C", "6", "0",
          "C">>, <<"#", "F", "9", "F", "1", "A", "5">>,
                             <<"#", "3", "B", "7", "8", "F", "F">>, <<"#",
                                 "B", "4", "0", "0", "9", "E">>, <<"#", "6",
                                 "1", "D", "6", "D", "6">>, <<"#", "F", "2",
                                 "F", "2", "F", "2">> >>,
      tab_bar         |-> TabBarColorsDefault,
      visual_bell     |-> None,
      scrollbar_thumb |-> None,
      split           |-> None ]

FontConfigDefault ==
    [ family                 |-> DefaultFamily,
      size                   |-> F32(<<"1", "2">>, <<>>),
      weight                 |-> None,
      freetype_load_target   |-> Some("Normal"),
      freetype_render_target |-> Some("Normal") ]

PaddingDefault ==
    [ left   |-> F32(<<"0">>, <<>>),
      right  |-> F32(<<"0">>, <<>>),
      top    |-> F32(<<"1", "0">>, <<>>),
      bottom |-> F32(<<"7">>, <<"5">>) ]

HSBDefault ==
    [ hue        |-> F32(<<"1">>, <<>>),
      saturation |-> F32(<<"1">>, <<>>),
      brightness |-> F32(<<"1">>, <<>>) ]

WindowConfigDefault ==
    [ window_padding               |-> PaddingDefault,
      window_background_opacity    |-> F32(<<"1">>, <<>>),
      window_decorations           |-> "IntegratedButtonsResize",
      enable_tab_bar               |-> TRUE,
      hide_tab_bar_if_only_one_tab |-> FALSE,
      use_fancy_tab_bar            |-> TRUE,
      tab_max_width                |-> 25,
      show_tab_index_in_tab_bar    |-> FALSE,
      inactive_pane_hsb            |-> HSBDefault,
      window_close_confirmation    |-> "NeverPrompt" ]

CursorConfigDefault ==
    [ default_cursor_style  |-> "BlinkingBlock",
      cursor_blink_rate     |-> 650,
      cursor_blink_ease_in  |-> "EaseOut",
      cursor_blink_ease_out |-> "EaseOut",
      animation_fps         |-> 120 ]

BackdropConfigDefault ==
    [ enabled         |-> FALSE,
      images_dir      |-> <<>>,
      images          |-> <<>>,
      current_index   |-> 0,
      focus_color     |-> <<"#", "1", "f", "1", "f", "2", "8">>,
      overlay_opacity |-> F32(<<"0">>, <<"9", "6">>),
      random_on_start |-> FALSE ]

GPUConfigDefault ==
    [ front_end               |-> "WebGpu",
      webgpu_power_preference |-> "HighPerformance",
      max_fps                 |-> 120 ]

GeneralConfigDefault ==
    [ automatically_reload_config                |-> TRUE,
      scrollback_lines                           |-> 3500,
      initial_rows                               |-> 24,
      initial_cols                               |-> 80,
      exit_behavior                              |-> "CloseOnCleanExit",
      audible_bell                               |-> "Disabled",
      enable_scroll_bar                          |-> FALSE,
      switch_to_last_active_tab_when_closing_tab |-> TRUE,
      adjust_window_size_when_changing_font_size |-> TRUE ]

CommandPaletteConfigDefault ==
    [ fg_color  |-> <<"#", "c", "d", "d", "6", "f", "4">>,
      bg_color  |-> <<"#", "1", "e", "1", "e", "2", "e">>,
      font_size |-> F32(<<"1", "4">>, <<>>) ]

VisualBellConfigDefault ==
    [ fade_in_duration_ms  |-> 75,
      fade_out_duration_ms |-> 150,
      fade_in_function     |-> "EaseIn",
      fade_out_function    |-> "EaseOut",
      target               |-> <<"B", "a", "c", "k", "g", "r", "o", "u", "n",
          "d", "C", "o", "l", "o", "r">> ]

\* KeyBinding::new
KeyBinding(key, mods) == [enabled |-> TRUE, key |-> key, mods |-> mods]

KeyBindingsConfigDefault ==
    [ disable_defaults |-> DefaultConfig.disable_defaults,
      leader           |-> [ enabled    |-> DefaultConfig.leader_enabled,
                             key        |-> <<"S", "p", "a", "c", "e">>,
                             mods       |-> <<"A", "L", "T", "|", "C", "T",
                                 "R", "L">>,
                             timeout_ms |-> 1000 ],
      key_tables       |-> [ resize_font_mode |-> KeyBinding(<<"f">>, <<"L",
          "E", "A", "D", "E", "R">>),
                             resize_pane_mode |-> KeyBinding(<<"p">>, <<"L",
                                 "E", "A", "D", "E", "R">>) ],
      mouse            |-> [ ctrl_click_open_link |->
                                 DefaultConfig.ctrl_click_open_link,
                             right_click_command_palette |->
                                 DefaultConfig.right_click_command_palette ],
      custom_commands  |-> [ settings_tui |-> DefaultConfig.settings_tui,
                             rename_tab   |-> DefaultConfig.rename_tab ] ]

AppearanceConfigDefault ==
    [ color_scheme    |-> None,
      colors          |-> ColorSchemeDefault,
      fonts           |-> FontConfigDefault,
      window          |-> WindowConfigDefault,
      cursor          |-> CursorConfigDefault,
      backdrop        |-> BackdropConfigDefault,
      gpu             |-> GPUConfigDefault,
      general         |-> GeneralConfigDefault,
      command_palette |-> CommandPaletteConfigDefault,
      visual_bell     |-> VisualBellConfigDefault,
      keybindings     |-> KeyBindingsConfigDefault ]

(***************************************************************************)
(* The section extractors (parser.rs 64-368). Each takes the text and the  *)
(* section as it stands and gives back its Result and the section as it    *)
(* leaves it. Every `if let Some(val)` writes a field of its own, but for  *)
(* the font family, which two patterns may write one after the other.      *)
(***************************************************************************)
\* `if let Some(val) = found { field = val }`
OrKeep(found, field) == IF found = None THEN field ELSE found[1]

\* \s*=\s*
Assign == <<Ws, Lit(<<"=">>), Ws>>

\* (?:config\.)?name\s*=\s*
ConfigAssign(name) == <<Opt(<<"c", "o", "n", "f", "i", "g", ".">>),
    Lit(name)>> \o Assign

Section(result, value) == [result |-> result, value |-> value]

parse_tab_bar_colors(content, tab_bar) ==
    LET Nested(keys, field) ==
            OrKeep(extract_nested_string(content,
                       <<<<"c", "o", "l", "o", "r", "s">>, <<"t", "a", "b",
                           "_", "b", "a", "r">>>> \o keys), field)
    IN  [tab_bar EXCEPT
            !.background = Nested(<<<<"b", "a", "c", "k", "g", "r", "o", "u",
                "n", "d">>>>, @),
            !.active_tab.bg_color = Nested(<<<<"a", "c", "t", "i", "v", "e",
                "_", "t", "a", "b">>, <<"b", "g", "_", "c", "o", "l", "o",
                "r">>>>, @),
            !.active_tab.fg_color = Nested(<<<<"a", "c", "t", "i", "v", "e",
                "_", "t", "a", "b">>, <<"f", "g", "_", "c", "o", "l", "o",
                "r">>>>, @),
            !.inactive_tab.bg_color =
                Nested(<<<<"i", "n", "a", "c", "t", "i", "v", "e", "_", "t",
                    "a", "b">>, <<"b", "g", "_", "c", "o", "l", "o", "r">>>>,
                    @),
            !.inactive_tab.fg_color =
                Nested(<<<<"i", "n", "a", "c", "t", "i", "v", "e", "_", "t",
                    "a", "b">>, <<"f", "g", "_", "c", "o", "l", "o", "r">>>>,
                    @)]

parse_colors(content, colors) ==
    LET Color(name, field) ==
            OrKeep(extract_string_value(content,
                       Regex(ConfigAssign(name), "quoted")), field)
        Array(name, field) ==
            LET Eight(found) ==
                    IF found # None /\ Len(found[1]) = 8 THEN found[1]
                    ELSE field
            IN  Eight(extract_color_array(content, name))
    IN  Section("Ok",
            [colors EXCEPT
                !.foreground = Color(<<"f", "o", "r", "e", "g", "r", "o", "u",
                    "n", "d">>, @),
                !.background = Color(<<"b", "a", "c", "k", "g", "r", "o", "u",
                    "n", "d">>, @),
                !.cursor_bg = Color(<<"c", "u", "r", "s", "o", "r", "_", "b",
                    "g">>, @),
                !.cursor_border = Color(<<"c", "u", "r", "s", "o", "r", "_",
                    "b", "o", "r", "d", "e", "r">>, @),
                !.cursor_fg = Color(<<"c", "u", "r", "s", "o", "r", "_", "f",
                    "g">>, @),
                !.selection_bg = Color(<<"s", "e", "l", "e", "c", "t", "i",
                    "o", "n", "_", "b", "g">>, @),
                !.selection_fg = Color(<<"s", "e", "l", "e", "c", "t", "i",
                    "o", "n", "_", "f", "g">>, @),
                !.ansi = Array(<<"a", "n", "s", "i">>, @),
                !.brights = Array(<<"b", "r", "i", "g", "h", "t", "s">>, @),
                !.tab_bar = parse_tab_bar_colors(content, @)])

parse_fonts(content, fonts) ==
    LET Weight(found, field) ==
            IF found = None THEN field ELSE parse_font_weight(found[1])
        Target(found, field) ==
            IF found = None THEN field ELSE parse_freetype_target(found[1])
        size == extract_number_value(content,
                    Regex(ConfigAssign(<<"f", "o", "n", "t", "_", "s", "i",
                        "z", "e">>), "decimal"))
        call == extract_string_value(content,
                    Regex(<<Lit(<<"w", "e", "z", "t", "e", "r", "m", ".", "f",
                        "o", "n", "t">>), Ws, Lit(<<"(">>), Ws>>,
                          "quoted"))
        table == extract_string_value(content,
                     Regex(<<Lit(<<"w", "e", "z", "t", "e", "r", "m", ".",
                         "f", "o", "n", "t">>), Ws, Lit(<<"{">>), Ws,
                             Lit(<<"f", "a", "m", "i", "l",
                                 "y">>)>> \o Assign, "quoted"))
        weight == extract_string_value(content,
                      Regex(<<Alt(<<"w", "e", "i", "g", "h", "t">>, <<"f",
                          "o", "n", "t", "_", "w", "e", "i", "g", "h",
                          "t">>)>> \o Assign,
                            "quoted"))
        load == extract_string_value(content,
                    Regex(<<Lit(<<"f", "r", "e", "e", "t", "y", "p", "e", "_",
                        "l", "o", "a", "d", "_", "t", "a", "r", "g", "e",
                        "t">>)>> \o Assign, "quoted"))
        render == extract_string_value(content,
                      Regex(<<Lit(<<"f", "r", "e", "e", "t", "y", "p", "e",
                          "_", "r", "e", "n", "d", "e", "r", "_", "t", "a",
                          "r", "g", "e", "t">>)>> \o Assign,
                            "quoted"))
    IN  Section("Ok",
            [fonts EXCEPT
                !.size = OrKeep(size, @),
                !.family = OrKeep(table, OrKeep(call, @)),
                !.weight = Weight(weight, @),
                !.freetype_load_target = Target(load, @),
                !.freetype_render_target = Target(render, @)])

parse_window_padding(content, padding) ==
    LET Side(name, field) ==
            OrKeep(extract_nested_number(content, <<<<"w", "i", "n", "d", "o",
                "w", "_", "p", "a", "d", "d", "i", "n", "g">>, name>>),
                   field)
    IN  [padding EXCEPT
            !.left = Side(<<"l", "e", "f", "t">>, @),
            !.right = Side(<<"r", "i", "g", "h", "t">>, @),
            !.top = Side(<<"t", "o", "p">>, @),
            !.bottom = Side(<<"b", "o", "t", "t", "o", "m">>, @)]

parse_hsb(content, hsb) ==
    LET Part(name, field) ==
            OrKeep(extract_nested_number(content,
                       <<<<"i", "n", "a", "c", "t", "i", "v", "e", "_", "p",
                           "a", "n", "e", "_", "h", "s", "b">>, name>>),
                           field)
    IN  [hsb EXCEPT
            !.hue = Part(<<"h", "u", "e">>, @),
            !.saturation = Part(<<"s", "a", "t", "u", "r", "a", "t", "i", "o",
                "n">>, @),
            !.brightness = Part(<<"b", "r", "i", "g", "h", "t", "n", "e", "s",
                "s">>, @)]

parse_window(content, window) ==
    LET Flag(name, field) ==
            OrKeep(extract_bool_value(content,
                       Regex(ConfigAssign(name), "bool")), field)
        Decorations(found, field) ==
            IF found = None THEN field ELSE parse_window_decorations(found[1])
        Count(found, field) == IF found = None THEN field ELSE AsU32(found[1])
        Confirmation(found, field) ==
            IF found = None THEN field ELSE parse_close_confirmation(found[1])
        opacity == extract_number_value(content,
                       Regex(ConfigAssign(<<"w", "i", "n", "d", "o", "w", "_",
                           "b", "a", "c", "k", "g", "r", "o", "u", "n", "d",
                           "_", "o", "p", "a", "c", "i", "t", "y">>),
                             "decimal"))
        decorations == extract_string_value(content,
                           Regex(ConfigAssign(<<"w", "i", "n", "d", "o", "w",
                               "_", "d", "e", "c", "o", "r", "a", "t", "i",
                               "o", "n", "s">>), "quoted"))
        width == extract_number_value(content,
                     Regex(ConfigAssign(<<"t", "a", "b", "_", "m", "a", "x",
                         "_", "w", "i", "d", "t", "h">>), "digits"))
        close == extract_string_value(content,
                     Regex(ConfigAssign(<<"w", "i", "n", "d", "o", "w", "_",
                         "c", "l", "o", "s", "e", "_", "c", "o", "n", "f",
                         "i", "r", "m", "a", "t", "i", "o", "n">>),
                           "quoted"))
    IN  Section("Ok",
            [window EXCEPT
                !.window_background_opacity = OrKeep(opacity, @),
                !.window_decorations = Decorations(decorations, @),
                !.enable_tab_bar = Flag(<<"e", "n", "a", "b", "l", "e", "_",
                    "t", "a", "b", "_", "b", "a", "r">>, @),
                !.hide_tab_bar_if_only_one_tab =
                    Flag(<<"h", "i", "d", "e", "_", "t", "a", "b", "_", "b",
                        "a", "r", "_", "i", "f", "_", "o", "n", "l", "y", "_",
                        "o", "n", "e", "_", "t", "a", "b">>, @),
                !.use_fancy_tab_bar = Flag(<<"u", "s", "e", "_", "f", "a",
                    "n", "c", "y", "_", "t", "a", "b", "_", "b", "a", "r">>,
                    @),
                !.tab_max_width = Count(width, @),
                !.show_tab_index_in_tab_bar =
                    Flag(<<"s", "h", "o", "w", "_", "t", "a", "b", "_", "i",
                        "n", "d", "e", "x", "_", "i", "n", "_", "t", "a", "b",
                        "_", "b", "a", "r">>, @),
                !.window_padding = parse_window_padding(content, @),
                !.inactive_pane_hsb = parse_hsb(content, @),
                !.window_close_confirmation = Confirmation(close, @)])

parse_cursor(content, cursor) ==
    LET Style(found, field) ==
            IF found = None THEN field ELSE parse_cursor_style(found[1])
        Ease(name, field) ==
            LET Function(found) ==
                    IF found = None THEN field
                    ELSE parse_ease_function(found[1])
            IN  Function(extract_string_value(content,
                             Regex(ConfigAssign(name), "quoted")))
        Count(name, field) ==
            LET Whole32(found) ==
                    IF found = None THEN field ELSE AsU32(found[1])
            IN  Whole32(extract_number_value(content,
                            Regex(ConfigAssign(name), "digits")))
        style == extract_string_value(content,
                     Regex(ConfigAssign(<<"d", "e", "f", "a", "u", "l", "t",
                         "_", "c", "u", "r", "s", "o", "r", "_", "s", "t",
                         "y", "l", "e">>), "quoted"))
    IN  Section("Ok",
            [cursor EXCEPT
                !.default_cursor_style = Style(style, @),
                !.cursor_blink_rate = Count(<<"c", "u", "r", "s", "o", "r",
                    "_", "b", "l", "i", "n", "k", "_", "r", "a", "t", "e">>,
                    @),
                !.cursor_blink_ease_in = Ease(<<"c", "u", "r", "s", "o", "r",
                    "_", "b", "l", "i", "n", "k", "_", "e", "a", "s", "e",
                    "_", "i", "n">>, @),
                !.cursor_blink_ease_out = Ease(<<"c", "u", "r", "s", "o", "r",
                    "_", "b", "l", "i", "n", "k", "_", "e", "a", "s", "e",
                    "_", "o", "u", "t">>, @),
                !.animation_fps = Count(<<"a", "n", "i", "m", "a", "t", "i",
                    "o", "n", "_", "f", "p", "s">>, @)])

parse_gpu(content, gpu) ==
    LET Front(found, field) ==
            IF found = None THEN field ELSE parse_front_end(found[1])
        Power(found, field) ==
            IF found = None THEN field ELSE parse_power_preference(found[1])
        Count(found, field) == IF found = None THEN field ELSE AsU32(found[1])
        front == extract_string_value(content,
                     Regex(ConfigAssign(<<"f", "r", "o", "n", "t", "_", "e",
                         "n", "d">>), "quoted"))
        power == extract_string_value(content,
                     Regex(ConfigAssign(<<"w", "e", "b", "g", "p", "u", "_",
                         "p", "o", "w", "e", "r", "_", "p", "r", "e", "f",
                         "e", "r", "e", "n", "c", "e">>), "quoted"))
        fps == extract_number_value(content,
                   Regex(ConfigAssign(<<"m", "a", "x", "_", "f", "p", "s">>),
                       "digits"))
    IN  Section("Ok",
            [gpu EXCEPT
                !.front_end = Front(front, @),
                !.webgpu_power_preference = Power(power, @),
                !.max_fps = Count(fps, @)])

(***************************************************************************)
(* parse_lua_content (parser.rs 32-58).                                    *)
(***************************************************************************)
\* errors.push(format!("<label>: {}", e)) for the sections that returned Err.
RECURSIVE Warnings(_)
Warnings(sections) ==
    IF sections = <<>> THEN <<>>
    ELSE (IF Head(sections)[2].result = "Ok" THEN <<>>
          ELSE <<Head(sections)[1]>>) \o Warnings(Tail(sections))

\* parse_lua_content that returns after the cursor section.
parse_lua_content_NoGpu(content) ==
    LET Parsed(fresh, colors, fonts, window, cursor) ==
            [ status       |-> "Ok",
              config       |-> [fresh EXCEPT !.colors = colors.value,
                                              !.fonts = fonts.value,
                                              !.window = window.value,
                                              !.cursor = cursor.value],
              raw_content  |-> content,
              parse_errors |->
                  Warnings(<< <<"Colors", colors>>, <<"Fonts", fonts>>,
                              <<"Window", window>>, <<"Cursor", cursor>> >>) ]
        Sections(fresh) ==
            Parsed(fresh, parse_colors(content, fresh.colors),
                   parse_fonts(content, fresh.fonts),
                   parse_window(content, fresh.window),
                   parse_cursor(content, fresh.cursor))
    IN  Sections(AppearanceConfigDefault)

parse_lua_content(content) ==
    LET Parsed(fresh, colors, fonts, window, cursor, gpu) ==
            [ status       |-> "Ok",
              config       |-> [fresh EXCEPT !.colors = colors.value,
                                              !.fonts = fonts.value,
                                              !.window = window.value,
                                              !.cursor = cursor.value,
                                              !.gpu = gpu.value],
              raw_content  |-> content,
              parse_errors |->
                  Warnings(<< <<"Colors", colors>>, <<"Fonts", fonts>>,
                              <<"Window", window>>, <<"Cursor", cursor>>,
                              <<"GPU", gpu>> >>) ]
        Sections(fresh) ==
            Parsed(fresh, parse_colors(content, fresh.colors),
                   parse_fonts(content, fresh.fonts),
                   parse_window(content, fresh.window),
                   parse_cursor(content, fresh.cursor),
                   parse_gpu(content, fresh.gpu))
    IN  Sections(AppearanceConfigDefault)

(***************************************************************************)
(* The configuration files the extraction is run on: every sequence of at  *)
(* most MaxChunks chunks of one of three vocabularies. A chunk is a piece  *)
(* of Lua text ending in a line break; the first vocabulary holds the text *)
(* of test_parse_simple_config, the second that of test_parse_color_array. *)
(***************************************************************************)
SettingsChunks ==
    {"test_parse_simple_config",
     "foreground",
     "tab_bar_background",
     "command_palette_font_size",
     "font_table",
     "font_size",
     "window_padding_table",
     "window_padding_left",
     "tab_max_width",
     "enable_tab_bar",
     "scrollback_lines",
     "color_scheme",
     "cursor_blink_rate",
     "max_fps",
     "max_fps_large",
     "font_size_huge"}

ArrayChunks ==
    {"test_parse_color_array",
     "ansi_6",
     "ansi_9",
     "ansi_8_lines",
     "ansi_numbers",
     "brights_8",
     "brights_6",
     "foreground_only"}

EnumChunks ==
    {"weight_known",
     "weight_unknown",
     "load_target_known",
     "load_target_unknown",
     "render_target_known",
     "render_target_unknown",
     "decorations_known",
     "decorations_unknown",
     "close_always",
     "close_never",
     "close_unknown",
     "style_known",
     "style_unknown",
     "ease_in_known",
     "ease_in_unknown",
     "ease_out_known",
     "ease_out_unknown",
     "front_end_known",
     "front_end_unknown",
     "power_known",
     "power_unknown"}

\* The text of a chunk.
ChunkText(c) ==
    \*   
    \*               local wezterm = require 'wezterm'
    \*               local config = wezterm.config_builder()
    \*               
    \*               config.font_size = 14
    \*               config.font = wezterm.font("JetBrains Mono")
    \*               config.window_background_opacity = 0.95
    \*               config.enable_tab_bar = false
    \*               
    \*               return config
    \*           
    CASE c = "test_parse_simple_config" -> <<"\n", " ", " ", " ", " ", " ",
                " ", " ", " ", " ", " ", " ", " ", "l", "o", "c", "a", "l", " ", "w",
                "e", "z", "t", "e", "r", "m", " ", "=", " ", "r", "e", "q", "u", "i",
                "r", "e", " ", "'", "w", "e", "z", "t", "e", "r", "m", "'", "\n", " ",
                " ", " ", " ", " ", " ", " ", " ", " ", " ", " ", " ", "l", "o", "c",
                "a", "l", " ", "c", "o", "n", "f", "i", "g", " ", "=", " ", "w", "e",
                "z", "t", "e", "r", "m", ".", "c", "o", "n", "f", "i", "g", "_", "b",
                "u", "i", "l", "d", "e", "r", "(", ")", "\n", " ", " ", " ", " ", " ",
                " ", " ", " ", " ", " ", " ", " ", "\n", " ", " ", " ", " ", " ", " ",
                " ", " ", " ", " ", " ", " ", "c", "o", "n", "f", "i", "g", ".", "f",
                "o", "n", "t", "_", "s", "i", "z", "e", " ", "=", " ", "1", "4", "\n",
                " ", " ", " ", " ", " ", " ", " ", " ", " ", " ", " ", " ", "c", "o",
                "n", "f", "i", "g", ".", "f", "o", "n", "t", " ", "=", " ", "w", "e",
                "z", "t", "e", "r", "m", ".", "f", "o", "n", "t", "(", "\"", "J", "e",
                "t", "B", "r", "a", "i", "n", "s", " ", "M", "o", "n", "o", "\"", ")",
                "\n", " ", " ", " ", " ", " ", " ", " ", " ", " ", " ", " ", " ", "c",
                "o", "n", "f", "i", "g", ".", "w", "i", "n", "d", "o", "w", "_", "b",
                "a", "c", "k", "g", "r", "o", "u", "n", "d", "_", "o", "p", "a", "c",
                "i", "t", "y", " ", "=", " ", "0", ".", "9", "5", "\n", " ", " ", " ",
                " ", " ", " ", " ", " ", " ", " ", " ", " ", "c", "o", "n", "f", "i",
                "g", ".", "e", "n", "a", "b", "l", "e", "_", "t", "a", "b", "_", "b",
                "a", "r", " ", "=", " ", "f", "a", "l", "s", "e", "\n", " ", " ", " ",
                " ", " ", " ", " ", " ", " ", " ", " ", " ", "\n", " ", " ", " ", " ",
                " ", " ", " ", " ", " ", " ", " ", " ", "r", "e", "t", "u", "r", "n",
                " ", "c", "o", "n", "f", "i", "g", "\n", " ", " ", " ", " ", " ", " ",
                " ", " ">>
    \*   config.foreground = "#ffffff"
      [] c = "foreground" -> <<"c", "o", "n", "f", "i", "g", ".", "f", "o",
                  "r", "e", "g", "r", "o", "u", "n", "d", " ", "=", " ", "\"", "#",
                  "f", "f", "f", "f", "f", "f", "\"", "\n">>
    \*   colors.tab_bar.background = '#000000'
      [] c = "tab_bar_background" -> <<"c", "o", "l", "o", "r", "s", ".", "t",
                  "a", "b", "_", "b", "a", "r", ".", "b", "a", "c", "k", "g", "r",
                  "o", "u", "n", "d", " ", "=", " ", "'", "#", "0", "0", "0", "0",
                  "0", "0", "'", "\n">>
    \*   config.command_palette_font_size = 16
      [] c = "command_palette_font_size" -> <<"c", "o", "n", "f", "i", "g",
                  ".", "c", "o", "m", "m", "a", "n", "d", "_", "p", "a", "l", "e",
                  "t", "t", "e", "_", "f", "o", "n", "t", "_", "s", "i", "z", "e",
                  " ", "=", " ", "1", "6", "\n">>
    \*   config.font = wezterm.font { family = "Monaco" }
      [] c = "font_table" -> <<"c", "o", "n", "f", "i", "g", ".", "f", "o",
                  "n", "t", " ", "=", " ", "w", "e", "z", "t", "e", "r", "m", ".",
                  "f", "o", "n", "t", " ", "{", " ", "f", "a", "m", "i", "l", "y",
                  " ", "=", " ", "\"", "M", "o", "n", "a", "c", "o", "\"", " ", "}",
                  "\n">>
    \*   config.font_size = 13.50
      [] c = "font_size" -> <<"c", "o", "n", "f", "i", "g", ".", "f", "o",
                  "n", "t", "_", "s", "i", "z", "e", " ", "=", " ", "1", "3", ".",
                  "5", "0", "\n">>
    \*   config.window_padding = { left = 5, right = 5 }
      [] c = "window_padding_table" -> <<"c", "o", "n", "f", "i", "g", ".",
                  "w", "i", "n", "d", "o", "w", "_", "p", "a", "d", "d", "i", "n",
                  "g", " ", "=", " ", "{", " ", "l", "e", "f", "t", " ", "=", " ",
                  "5", ",", " ", "r", "i", "g", "h", "t", " ", "=", " ", "5", " ",
                  "}", "\n">>
    \*   config.window_padding.left = 5
      [] c = "window_padding_left" -> <<"c", "o", "n", "f", "i", "g", ".",
                  "w", "i", "n", "d", "o", "w", "_", "p", "a", "d", "d", "i", "n",
                  "g", ".", "l", "e", "f", "t", " ", "=", " ", "5", "\n">>
    \*   config.tab_max_width = 30.9
      [] c = "tab_max_width" -> <<"c", "o", "n", "f", "i", "g", ".", "t", "a",
                  "b", "_", "m", "a", "x", "_", "w", "i", "d", "t", "h", " ", "=",
                  " ", "3", "0", ".", "9", "\n">>
    \*   config.enable_tab_bar = true
      [] c = "enable_tab_bar" -> <<"c", "o", "n", "f", "i", "g", ".", "e",
                  "n", "a", "b", "l", "e", "_", "t", "a", "b", "_", "b", "a", "r",
                  " ", "=", " ", "t", "r", "u", "e", "\n">>
    \*   config.scrollback_lines = 5000
      [] c = "scrollback_lines" -> <<"c", "o", "n", "f", "i", "g", ".", "s",
                  "c", "r", "o", "l", "l", "b", "a", "c", "k", "_", "l", "i", "n",
                  "e", "s", " ", "=", " ", "5", "0", "0", "0", "\n">>
    \*   config.color_scheme = "Nord"
      [] c = "color_scheme" -> <<"c", "o", "n", "f", "i", "g", ".", "c", "o",
                  "l", "o", "r", "_", "s", "c", "h", "e", "m", "e", " ", "=", " ",
                  "\"", "N", "o", "r", "d", "\"", "\n">>
    \*   config.cursor_blink_rate = 500
      [] c = "cursor_blink_rate" -> <<"c", "o", "n", "f", "i", "g", ".", "c",
                  "u", "r", "s", "o", "r", "_", "b", "l", "i", "n", "k", "_", "r",
                  "a", "t", "e", " ", "=", " ", "5", "0", "0", "\n">>
    \*   config.max_fps=60
      [] c = "max_fps" -> <<"c", "o", "n", "f", "i", "g", ".", "m", "a", "x",
                  "_", "f", "p", "s", "=", "6", "0", "\n">>
    \*   config.max_fps = 16777217
      [] c = "max_fps_large" -> <<"c", "o", "n", "f", "i", "g", ".", "m", "a",
          "x", "_", "f", "p", "s", " ", "=", " ", "1", "6", "7", "7", "7",
          "2", "1", "7", "\n">>
    \*   config.font_size = 1000000000000000000000000000000000000000
      [] c = "font_size_huge" -> <<"c", "o", "n", "f", "i", "g", ".", "f",
          "o", "n", "t", "_", "s", "i", "z", "e", " ", "=", " ", "1", "0",
          "0", "0", "0", "0", "0", "0", "0", "0", "0", "0", "0", "0", "0",
          "0", "0", "0", "0", "0", "0", "0", "0", "0", "0", "0", "0", "0",
          "0", "0", "0", "0", "0", "0", "0", "0", "0", "0", "0", "0", "\n">>
    \*   
    \*               ansi = { "#000000", "#ff0000", "#00ff00", "#ffff00", "#0000ff", "#ff00ff", "#00ffff", "#ffffff" }
    \*           
      [] c = "test_parse_color_array" -> <<"\n", " ", " ", " ", " ", " ", " ",
                  " ", " ", " ", " ", " ", " ", "a", "n", "s", "i", " ", "=", " ",
                  "{", " ", "\"", "#", "0", "0", "0", "0", "0", "0", "\"", ",", " ",
                  "\"", "#", "f", "f", "0", "0", "0", "0", "\"", ",", " ", "\"", "#",
                  "0", "0", "f", "f", "0", "0", "\"", ",", " ", "\"", "#", "f", "f",
                  "f", "f", "0", "0", "\"", ",", " ", "\"", "#", "0", "0", "0", "0",
                  "f", "f", "\"", ",", " ", "\"", "#", "f", "f", "0", "0", "f", "f",
                  "\"", ",", " ", "\"", "#", "0", "0", "f", "f", "f", "f", "\"", ",",
                  " ", "\"", "#", "f", "f", "f", "f", "f", "f", "\"", " ", "}", "\n",
                  " ", " ", " ", " ", " ", " ", " ", " ">>
    \*   ansi = { "#000000", "#ff0000", "#00ff00", "#ffff00", "#0000ff", "#ff00ff" }
      [] c = "ansi_6" -> <<"a", "n", "s", "i", " ", "=", " ", "{", " ", "\"",
                  "#", "0", "0", "0", "0", "0", "0", "\"", ",", " ", "\"", "#", "f",
                  "f", "0", "0", "0", "0", "\"", ",", " ", "\"", "#", "0", "0", "f",
                  "f", "0", "0", "\"", ",", " ", "\"", "#", "f", "f", "f", "f", "0",
                  "0", "\"", ",", " ", "\"", "#", "0", "0", "0", "0", "f", "f", "\"",
                  ",", " ", "\"", "#", "f", "f", "0", "0", "f", "f", "\"", " ", "}",
                  "\n">>
    \*   config.colors.ansi = { "#000000", "#ff0000", "#00ff00", "#ffff00", "#0000ff", "#ff00ff", "#00ffff", "#ffffff", "#123456" }
      [] c = "ansi_9" -> <<"c", "o", "n", "f", "i", "g", ".", "c", "o", "l",
                  "o", "r", "s", ".", "a", "n", "s", "i", " ", "=", " ", "{", " ",
                  "\"", "#", "0", "0", "0", "0", "0", "0", "\"", ",", " ", "\"", "#",
                  "f", "f", "0", "0", "0", "0", "\"", ",", " ", "\"", "#", "0", "0",
                  "f", "f", "0", "0", "\"", ",", " ", "\"", "#", "f", "f", "f", "f",
                  "0", "0", "\"", ",", " ", "\"", "#", "0", "0", "0", "0", "f", "f",
                  "\"", ",", " ", "\"", "#", "f", "f", "0", "0", "f", "f", "\"", ",",
                  " ", "\"", "#", "0", "0", "f", "f", "f", "f", "\"", ",", " ", "\"",
                  "#", "f", "f", "f", "f", "f", "f", "\"", ",", " ", "\"", "#", "1",
                  "2", "3", "4", "5", "6", "\"", " ", "}", "\n">>
    \*   ansi = {
    \*     '#1',
    \*     '#2',
    \*     '#3',
    \*     '#4',
    \*     '#5',
    \*     '#6',
    \*     '#7',
    \*     '#8',
    \*   }
      [] c = "ansi_8_lines" -> <<"a", "n", "s", "i", " ", "=", " ", "{", "\n",
                  " ", " ", "'", "#", "1", "'", ",", "\n", " ", " ", "'", "#", "2",
                  "'", ",", "\n", " ", " ", "'", "#", "3", "'", ",", "\n", " ", " ",
                  "'", "#", "4", "'", ",", "\n", " ", " ", "'", "#", "5", "'", ",",
                  "\n", " ", " ", "'", "#", "6", "'", ",", "\n", " ", " ", "'", "#",
                  "7", "'", ",", "\n", " ", " ", "'", "#", "8", "'", ",", "\n", "}",
                  "\n">>
    \*   ansi = { 1, 2, 3, 4, 5, 6, 7, 8 }
      [] c = "ansi_numbers" -> <<"a", "n", "s", "i", " ", "=", " ", "{", " ",
                  "1", ",", " ", "2", ",", " ", "3", ",", " ", "4", ",", " ", "5",
                  ",", " ", "6", ",", " ", "7", ",", " ", "8", " ", "}", "\n">>
    \*   brights = { "#808080", "#ff8080", "#80ff80", "#ffff80", "#8080ff", "#ff80ff", "#80ffff", "#fefefe" }
      [] c = "brights_8" -> <<"b", "r", "i", "g", "h", "t", "s", " ", "=",
                  " ", "{", " ", "\"", "#", "8", "0", "8", "0", "8", "0", "\"", ",",
                  " ", "\"", "#", "f", "f", "8", "0", "8", "0", "\"", ",", " ", "\"",
                  "#", "8", "0", "f", "f", "8", "0", "\"", ",", " ", "\"", "#", "f",
                  "f", "f", "f", "8", "0", "\"", ",", " ", "\"", "#", "8", "0", "8",
                  "0", "f", "f", "\"", ",", " ", "\"", "#", "f", "f", "8", "0", "f",
                  "f", "\"", ",", " ", "\"", "#", "8", "0", "f", "f", "f", "f", "\"",
                  ",", " ", "\"", "#", "f", "e", "f", "e", "f", "e", "\"", " ", "}",
                  "\n">>
    \*   brights = { "#808080", "#ff8080", "#80ff80", "#ffff80", "#8080ff", "#ff80ff" }
      [] c = "brights_6" -> <<"b", "r", "i", "g", "h", "t", "s", " ", "=",
                  " ", "{", " ", "\"", "#", "8", "0", "8", "0", "8", "0", "\"", ",",
                  " ", "\"", "#", "f", "f", "8", "0", "8", "0", "\"", ",", " ", "\"",
                  "#", "8", "0", "f", "f", "8", "0", "\"", ",", " ", "\"", "#", "f",
                  "f", "f", "f", "8", "0", "\"", ",", " ", "\"", "#", "8", "0", "8",
                  "0", "f", "f", "\"", ",", " ", "\"", "#", "f", "f", "8", "0", "f",
                  "f", "\"", " ", "}", "\n">>
    \*   foreground = "#ffffff"
      [] c = "foreground_only" -> <<"f", "o", "r", "e", "g", "r", "o", "u",
                  "n", "d", " ", "=", " ", "\"", "#", "f", "f", "f", "f", "f", "f",
                  "\"", "\n">>
    \*   config.font = wezterm.font { family = "Menlo", weight = "DemiBold" }
      [] c = "weight_known" -> <<"c", "o", "n", "f", "i", "g", ".", "f", "o",
                  "n", "t", " ", "=", " ", "w", "e", "z", "t", "e", "r", "m", ".",
                  "f", "o", "n", "t", " ", "{", " ", "f", "a", "m", "i", "l", "y",
                  " ", "=", " ", "\"", "M", "e", "n", "l", "o", "\"", ",", " ", "w",
                  "e", "i", "g", "h", "t", " ", "=", " ", "\"", "D", "e", "m", "i",
                  "B", "o", "l", "d", "\"", " ", "}", "\n">>
    \*   font_weight = "Heavier"
      [] c = "weight_unknown" -> <<"f", "o", "n", "t", "_", "w", "e", "i",
                  "g", "h", "t", " ", "=", " ", "\"", "H", "e", "a", "v", "i", "e",
                  "r", "\"", "\n">>
    \*   config.freetype_load_target = "HorizontalLcd"
      [] c = "load_target_known" -> <<"c", "o", "n", "f", "i", "g", ".", "f",
                  "r", "e", "e", "t", "y", "p", "e", "_", "l", "o", "a", "d", "_",
                  "t", "a", "r", "g", "e", "t", " ", "=", " ", "\"", "H", "o", "r",
                  "i", "z", "o", "n", "t", "a", "l", "L", "c", "d", "\"", "\n">>
    \*   config.freetype_load_target = "Subpixel"
      [] c = "load_target_unknown" -> <<"c", "o", "n", "f", "i", "g", ".",
                  "f", "r", "e", "e", "t", "y", "p", "e", "_", "l", "o", "a", "d",
                  "_", "t", "a", "r", "g", "e", "t", " ", "=", " ", "\"", "S", "u",
                  "b", "p", "i", "x", "e", "l", "\"", "\n">>
    \*   config.freetype_render_target = 'Light'
      [] c = "render_target_known" -> <<"c", "o", "n", "f", "i", "g", ".",
                  "f", "r", "e", "e", "t", "y", "p", "e", "_", "r", "e", "n", "d",
                  "e", "r", "_", "t", "a", "r", "g", "e", "t", " ", "=", " ", "'",
                  "L", "i", "g", "h", "t", "'", "\n">>
    \*   config.freetype_render_target = 'LCD'
      [] c = "render_target_unknown" -> <<"c", "o", "n", "f", "i", "g", ".",
                  "f", "r", "e", "e", "t", "y", "p", "e", "_", "r", "e", "n", "d",
                  "e", "r", "_", "t", "a", "r", "g", "e", "t", " ", "=", " ", "'",
                  "L", "C", "D", "'", "\n">>
    \*   config.window_decorations = "RESIZE"
      [] c = "decorations_known" -> <<"c", "o", "n", "f", "i", "g", ".", "w",
                  "i", "n", "d", "o", "w", "_", "d", "e", "c", "o", "r", "a", "t",
                  "i", "o", "n", "s", " ", "=", " ", "\"", "R", "E", "S", "I", "Z",
                  "E", "\"", "\n">>
    \*   config.window_decorations = "TITLE | RESIZE"
      [] c = "decorations_unknown" -> <<"c", "o", "n", "f", "i", "g", ".",
                  "w", "i", "n", "d", "o", "w", "_", "d", "e", "c", "o", "r", "a",
                  "t", "i", "o", "n", "s", " ", "=", " ", "\"", "T", "I", "T", "L",
                  "E", " ", "|", " ", "R", "E", "S", "I", "Z", "E", "\"", "\n">>
    \*   config.window_close_confirmation = "AlwaysPrompt"
      [] c = "close_always" -> <<"c", "o", "n", "f", "i", "g", ".", "w", "i",
                  "n", "d", "o", "w", "_", "c", "l", "o", "s", "e", "_", "c", "o",
                  "n", "f", "i", "r", "m", "a", "t", "i", "o", "n", " ", "=", " ",
                  "\"", "A", "l", "w", "a", "y", "s", "P", "r", "o", "m", "p", "t",
                  "\"", "\n">>
    \*   config.window_close_confirmation = "NeverPrompt"
      [] c = "close_never" -> <<"c", "o", "n", "f", "i", "g", ".", "w", "i",
                  "n", "d", "o", "w", "_", "c", "l", "o", "s", "e", "_", "c", "o",
                  "n", "f", "i", "r", "m", "a", "t", "i", "o", "n", " ", "=", " ",
                  "\"", "N", "e", "v", "e", "r", "P", "r", "o", "m", "p", "t", "\"",
                  "\n">>
    \*   config.window_close_confirmation = "Sometimes"
      [] c = "close_unknown" -> <<"c", "o", "n", "f", "i", "g", ".", "w", "i",
                  "n", "d", "o", "w", "_", "c", "l", "o", "s", "e", "_", "c", "o",
                  "n", "f", "i", "r", "m", "a", "t", "i", "o", "n", " ", "=", " ",
                  "\"", "S", "o", "m", "e", "t", "i", "m", "e", "s", "\"", "\n">>
    \*   config.default_cursor_style = "SteadyBar"
      [] c = "style_known" -> <<"c", "o", "n", "f", "i", "g", ".", "d", "e",
                  "f", "a", "u", "l", "t", "_", "c", "u", "r", "s", "o", "r", "_",
                  "s", "t", "y", "l", "e", " ", "=", " ", "\"", "S", "t", "e", "a",
                  "d", "y", "B", "a", "r", "\"", "\n">>
    \*   config.default_cursor_style = "Blinking"
      [] c = "style_unknown" -> <<"c", "o", "n", "f", "i", "g", ".", "d", "e",
                  "f", "a", "u", "l", "t", "_", "c", "u", "r", "s", "o", "r", "_",
                  "s", "t", "y", "l", "e", " ", "=", " ", "\"", "B", "l", "i", "n",
                  "k", "i", "n", "g", "\"", "\n">>
    \*   config.cursor_blink_ease_in = "Linear"
      [] c = "ease_in_known" -> <<"c", "o", "n", "f", "i", "g", ".", "c", "u",
                  "r", "s", "o", "r", "_", "b", "l", "i", "n", "k", "_", "e", "a",
                  "s", "e", "_", "i", "n", " ", "=", " ", "\"", "L", "i", "n", "e",
                  "a", "r", "\"", "\n">>
    \*   config.cursor_blink_ease_in = "Ease"
      [] c = "ease_in_unknown" -> <<"c", "o", "n", "f", "i", "g", ".", "c",
                  "u", "r", "s", "o", "r", "_", "b", "l", "i", "n", "k", "_", "e",
                  "a", "s", "e", "_", "i", "n", " ", "=", " ", "\"", "E", "a", "s",
                  "e", "\"", "\n">>
    \*   config.cursor_blink_ease_out = "Constant"
      [] c = "ease_out_known" -> <<"c", "o", "n", "f", "i", "g", ".", "c",
                  "u", "r", "s", "o", "r", "_", "b", "l", "i", "n", "k", "_", "e",
                  "a", "s", "e", "_", "o", "u", "t", " ", "=", " ", "\"", "C", "o",
                  "n", "s", "t", "a", "n", "t", "\"", "\n">>
    \*   config.cursor_blink_ease_out = "constant"
      [] c = "ease_out_unknown" -> <<"c", "o", "n", "f", "i", "g", ".", "c",
                  "u", "r", "s", "o", "r", "_", "b", "l", "i", "n", "k", "_", "e",
                  "a", "s", "e", "_", "o", "u", "t", " ", "=", " ", "\"", "c", "o",
                  "n", "s", "t", "a", "n", "t", "\"", "\n">>
    \*   config.front_end = "OpenGL"
      [] c = "front_end_known" -> <<"c", "o", "n", "f", "i", "g", ".", "f",
                  "r", "o", "n", "t", "_", "e", "n", "d", " ", "=", " ", "\"", "O",
                  "p", "e", "n", "G", "L", "\"", "\n">>
    \*   config.front_end = "Vulkan"
      [] c = "front_end_unknown" -> <<"c", "o", "n", "f", "i", "g", ".", "f",
                  "r", "o", "n", "t", "_", "e", "n", "d", " ", "=", " ", "\"", "V",
                  "u", "l", "k", "a", "n", "\"", "\n">>
    \*   config.webgpu_power_preference = "LowPower"
      [] c = "power_known" -> <<"c", "o", "n", "f", "i", "g", ".", "w", "e",
                  "b", "g", "p", "u", "_", "p", "o", "w", "e", "r", "_", "p", "r",
                  "e", "f", "e", "r", "e", "n", "c", "e", " ", "=", " ", "\"", "L",
                  "o", "w", "P", "o", "w", "e", "r", "\"", "\n">>
    \*   config.webgpu_power_preference = "Balanced"
      [] c = "power_unknown" -> <<"c", "o", "n", "f", "i", "g", ".", "w", "e",
                  "b", "g", "p", "u", "_", "p", "o", "w", "e", "r", "_", "p", "r",
                  "e", "f", "e", "r", "e", "n", "c", "e", " ", "=", " ", "\"", "B",
                  "a", "l", "a", "n", "c", "e", "d", "\"", "\n">>

\* read_to_string: the text of the file.
RECURSIVE Content(_)
Content(chunks) ==
    IF chunks = <<>> THEN <<>>
    ELSE ChunkText(Head(chunks)) \o Content(Tail(chunks))

Scripts(vocabulary) == UNION {[1..n -> vocabulary] : n \in 0..MaxChunks}

(***************************************************************************)
(* The interchange format: serde_json on the derived Serialize and         *)
(* Deserialize of the model types (models/config.rs 10-455). A document is *)
(* kept as the tree of JSON values its text denotes; numbers and strings   *)
(* are kept as their text.                                                 *)
(***************************************************************************)
ExitBehavior == {"Close", "CloseOnCleanExit", "Hold"}

AudibleBell == {"SystemBeep", "Disabled"}

Variants(enum) ==
    CASE enum = "FontWeight" -> FontWeight
      [] enum = "FreetypeTarget" -> FreetypeTarget
      [] enum = "WindowDecorations" -> WindowDecorations
      [] enum = "CloseConfirmation" -> CloseConfirmation
      [] enum = "CursorStyle" -> CursorStyle
      [] enum = "EaseFunction" -> EaseFunction
      [] enum = "ExitBehavior" -> ExitBehavior
      [] enum = "AudibleBell" -> AudibleBell
      [] enum = "FrontEnd" -> FrontEnd
      [] enum = "PowerPreference" -> PowerPreference

\* The name serde gives each variant: its own, but for the variants of
\* WindowDecorations, which are renamed.
VariantText ==
    <<"FontWeight", "Thin">> :> <<"T", "h", "i", "n">> @@
    <<"FontWeight", "ExtraLight">> :> <<"E", "x", "t", "r", "a", "L", "i",
        "g", "h", "t">> @@
    <<"FontWeight", "Light">> :> <<"L", "i", "g", "h", "t">> @@
    <<"FontWeight", "Regular">> :> <<"R", "e", "g", "u", "l", "a", "r">> @@
    <<"FontWeight", "Medium">> :> <<"M", "e", "d", "i", "u", "m">> @@
    <<"FontWeight", "DemiBold">> :> <<"D", "e", "m", "i", "B", "o", "l",
        "d">> @@
    <<"FontWeight", "Bold">> :> <<"B", "o", "l", "d">> @@
    <<"FontWeight", "ExtraBold">> :> <<"E", "x", "t", "r", "a", "B", "o", "l",
        "d">> @@
    <<"FontWeight", "Black">> :> <<"B", "l", "a", "c", "k">> @@
    <<"FreetypeTarget", "Normal">> :> <<"N", "o", "r", "m", "a", "l">> @@
    <<"FreetypeTarget", "Light">> :> <<"L", "i", "g", "h", "t">> @@
    <<"FreetypeTarget", "Mono">> :> <<"M", "o", "n", "o">> @@
    <<"FreetypeTarget", "HorizontalLcd">> :> <<"H", "o", "r", "i", "z", "o",
        "n", "t", "a", "l", "L", "c", "d">> @@
    <<"WindowDecorations", "Full">> :> <<"F", "U", "L", "L">> @@
    <<"WindowDecorations", "Resize">> :> <<"R", "E", "S", "I", "Z", "E">> @@
    <<"WindowDecorations", "None">> :> <<"N", "O", "N", "E">> @@
    <<"WindowDecorations", "Title">> :> <<"T", "I", "T", "L", "E">> @@
    <<"WindowDecorations", "IntegratedButtonsResize">> :> <<"I", "N", "T",
        "E", "G", "R", "A", "T", "E", "D", "_", "B", "U", "T", "T", "O", "N",
        "S", "|", "R", "E", "S", "I", "Z", "E">> @@
    <<"CloseConfirmation", "AlwaysPrompt">> :> <<"A", "l", "w", "a", "y", "s",
        "P", "r", "o", "m", "p", "t">> @@
    <<"CloseConfirmation", "NeverPrompt">> :> <<"N", "e", "v", "e", "r", "P",
        "r", "o", "m", "p", "t">> @@
    <<"CursorStyle", "SteadyBlock">> :> <<"S", "t", "e", "a", "d", "y", "B",
        "l", "o", "c", "k">> @@
    <<"CursorStyle", "BlinkingBlock">> :> <<"B", "l", "i", "n", "k", "i", "n",
        "g", "B", "l", "o", "c", "k">> @@
    <<"CursorStyle", "SteadyUnderline">> :> <<"S", "t", "e", "a", "d", "y",
        "U", "n", "d", "e", "r", "l", "i", "n", "e">> @@
    <<"CursorStyle", "BlinkingUnderline">> :> <<"B", "l", "i", "n", "k", "i",
        "n", "g", "U", "n", "d", "e", "r", "l", "i", "n", "e">> @@
    <<"CursorStyle", "SteadyBar">> :> <<"S", "t", "e", "a", "d", "y", "B",
        "a", "r">> @@
    <<"CursorStyle", "BlinkingBar">> :> <<"B", "l", "i", "n", "k", "i", "n",
        "g", "B", "a", "r">> @@
    <<"EaseFunction", "Linear">> :> <<"L", "i", "n", "e", "a", "r">> @@
    <<"EaseFunction", "EaseIn">> :> <<"E", "a", "s", "e", "I", "n">> @@
    <<"EaseFunction", "EaseOut">> :> <<"E", "a", "s", "e", "O", "u", "t">> @@
    <<"EaseFunction", "EaseInOut">> :> <<"E", "a", "s", "e", "I", "n", "O",
        "u", "t">> @@
    <<"EaseFunction", "Constant">> :> <<"C", "o", "n", "s", "t", "a", "n",
        "t">> @@
    <<"ExitBehavior", "Close">> :> <<"C", "l", "o", "s", "e">> @@
    <<"ExitBehavior", "CloseOnCleanExit">> :> <<"C", "l", "o", "s", "e", "O",
        "n", "C", "l", "e", "a", "n", "E", "x", "i", "t">> @@
    <<"ExitBehavior", "Hold">> :> <<"H", "o", "l", "d">> @@
    <<"AudibleBell", "SystemBeep">> :> <<"S", "y", "s", "t", "e", "m", "B",
        "e", "e", "p">> @@
    <<"AudibleBell", "Disabled">> :> <<"D", "i", "s", "a", "b", "l", "e",
        "d">> @@
    <<"FrontEnd", "WebGpu">> :> <<"W", "e", "b", "G", "p", "u">> @@
    <<"FrontEnd", "OpenGL">> :> <<"O", "p", "e", "n", "G", "L">> @@
    <<"FrontEnd", "Software">> :> <<"S", "o", "f", "t", "w", "a", "r",
        "e">> @@
    <<"PowerPreference", "LowPower">> :> <<"L", "o", "w", "P", "o", "w", "e",
        "r">> @@
    <<"PowerPreference", "HighPerformance">> :> <<"H", "i", "g", "h", "P",
        "e", "r", "f", "o", "r", "m", "a", "n", "c", "e">>

\* The types of the fields.
Str == <<"String">>

Bool == <<"bool">>

\* u32 and usize
Whole == <<"u32">>

Float == <<"f32">>

Option(type) == <<"Option", type>>

\* [T; 8]
Array8(type) == <<"Array8", type>>

Vec(type) == <<"Vec", type>>

Enum(name) == <<"enum", name>>

Struct(name) == <<"struct", name>>

\* The fields of each struct, in the order of declaration. Every Option
\* field carries skip_serializing_if = "Option::is_none".
Fields(name) ==
    CASE name = "TabColors" ->
           << <<"bg_color", Str>>, <<"fg_color", Str>>,
              <<"italic", Option(Bool)>> >>
      [] name = "TabBarColors" ->
           << <<"background", Str>>, <<"active_tab", Struct("TabColors")>>,
              <<"inactive_tab", Struct("TabColors")>>,
              <<"inactive_tab_hover", Struct("TabColors")>>,
              <<"new_tab", Struct("TabColors")>>,
              <<"new_tab_hover", Struct("TabColors")>> >>
      [] name = "ColorScheme" ->
           << <<"foreground", Str>>, <<"background", Str>>,
              <<"cursor_bg", Str>>, <<"cursor_border", Str>>,
              <<"cursor_fg", Str>>, <<"selection_bg", Str>>,
              <<"selection_fg", Str>>, <<"ansi", Array8(Str)>>,
              <<"brights", Array8(Str)>>,
              <<"tab_bar", Struct("TabBarColors")>>,
              <<"visual_bell", Option(Str)>>,
              <<"scrollbar_thumb", Option(Str)>>, <<"split", Option(Str)>> >>
      [] name = "FontConfig" ->
           << <<"family", Str>>, <<"size", Float>>,
              <<"weight", Option(Enum("FontWeight"))>>,
              <<"freetype_load_target", Option(Enum("FreetypeTarget"))>>,
              <<"freetype_render_target", Option(Enum("FreetypeTarget"))>> >>
      [] name = "Padding" ->
           << <<"left", Float>>, <<"right", Float>>, <<"top", Float>>,
              <<"bottom", Float>> >>
      [] name = "HSB" ->
           << <<"hue", Float>>, <<"saturation", Float>>,
              <<"brightness", Float>> >>
      [] name = "WindowConfig" ->
           << <<"window_padding", Struct("Padding")>>,
              <<"window_background_opacity", Float>>,
              <<"window_decorations", Enum("WindowDecorations")>>,
              <<"enable_tab_bar", Bool>>,
              <<"hide_tab_bar_if_only_one_tab", Bool>>,
              <<"use_fancy_tab_bar", Bool>>, <<"tab_max_width", Whole>>,
              <<"show_tab_index_in_tab_bar", Bool>>,
              <<"inactive_pane_hsb", Struct("HSB")>>,
              <<"window_close_confirmation", Enum("CloseConfirmation")>> >>
      [] name = "CursorConfig" ->
           << <<"default_cursor_style", Enum("CursorStyle")>>,
              <<"cursor_blink_rate", Whole>>,
              <<"cursor_blink_ease_in", Enum("EaseFunction")>>,
              <<"cursor_blink_ease_out", Enum("EaseFunction")>>,
              <<"animation_fps", Whole>> >>
      [] name = "BackdropConfig" ->
           << <<"enabled", Bool>>, <<"images_dir", Str>>,
              <<"images", Vec(Str)>>, <<"current_index", Whole>>,
              <<"focus_color", Str>>, <<"overlay_opacity", Float>>,
              <<"random_on_start", Bool>> >>
      [] name = "GPUConfig" ->
           << <<"front_end", Enum("FrontEnd")>>,
              <<"webgpu_power_preference", Enum("PowerPreference")>>,
              <<"max_fps", Whole>> >>
      [] name = "GeneralConfig" ->
           << <<"automatically_reload_config", Bool>>,
              <<"scrollback_lines", Whole>>, <<"initial_rows", Whole>>,
              <<"initial_cols", Whole>>,
              <<"exit_behavior", Enum("ExitBehavior")>>,
              <<"audible_bell", Enum("AudibleBell")>>,
              <<"enable_scroll_bar", Bool>>,
              <<"switch_to_last_active_tab_when_closing_tab", Bool>>,
              <<"adjust_window_size_when_changing_font_size", Bool>> >>
      [] name = "CommandPaletteConfig" ->
           << <<"fg_color", Str>>, <<"bg_color", Str>>, <<"font_size", Float>> >>
      [] name = "VisualBellConfig" ->
           << <<"fade_in_duration_ms", Whole>>,
              <<"fade_out_duration_ms", Whole>>,
              <<"fade_in_function", Enum("EaseFunction")>>,
              <<"fade_out_function", Enum("EaseFunction")>>, <<"target", Str>> >>
      [] name = "KeyBinding" ->
           << <<"enabled", Bool>>, <<"key", Str>>, <<"mods", Str>> >>
      [] name = "KeyTableBindings" ->
           << <<"resize_font_mode", Struct("KeyBinding")>>,
              <<"resize_pane_mode", Struct("KeyBinding")>> >>
      [] name = "LeaderKeyConfig" ->
           << <<"enabled", Bool>>, <<"key", Str>>, <<"mods", Str>>,
              <<"timeout_ms", Whole>> >>
      [] name = "MouseBindings" ->
           << <<"ctrl_click_open_link", Bool>>,
              <<"right_click_command_palette", Bool>> >>
      [] name = "CustomCommands" ->
           << <<"settings_tui", Bool>>, <<"rename_tab", Bool>> >>
      [] name = "KeyBindingsConfig" ->
           << <<"disable_defaults", Bool>>,
              <<"leader", Struct("LeaderKeyConfig")>>,
              <<"key_tables", Struct("KeyTableBindings")>>,
              <<"mouse", Struct("MouseBindings")>>,
              <<"custom_commands", Struct("CustomCommands")>> >>
      [] name = "AppearanceConfig" ->
           << <<"color_scheme", Option(Str)>>,
              <<"colors", Struct("ColorScheme")>>,
              <<"fonts", Struct("FontConfig")>>,
              <<"window", Struct("WindowConfig")>>,
              <<"cursor", Struct("CursorConfig")>>,
              <<"backdrop", Struct("BackdropConfig")>>,
              <<"gpu", Struct("GPUConfig")>>,
              <<"general", Struct("GeneralConfig")>>,
              <<"command_palette", Struct("CommandPaletteConfig")>>,
              <<"visual_bell", Struct("VisualBellConfig")>>,
              <<"keybindings", Struct("KeyBindingsConfig")>> >>

FieldType(name, field) ==
    LET fields == Fields(name)
    IN  fields[CHOOSE i \in 1..Len(fields) : fields[i][1] = field][2]

\* Display of a whole number.
RECURSIVE FormatWhole(_)
FormatWhole(n) ==
    LET digit == <<"0", "1", "2", "3", "4", "5", "6", "7", "8", "9">>[(n % 10) + 1]
    IN  IF n < 10 THEN <<digit>> ELSE FormatWhole(n \div 10) \o <<digit>>

\* The shortest decimal that reads back as the same finite f32.
FormatF32(val) ==
    (IF val.int = <<>> THEN <<"0">> ELSE val.int) \o <<".">>
        \o (IF val.frac = <<>> THEN <<"0">> ELSE val.frac)

\* Serialize: a field that is None is left out of its object, and a float
\* that is not finite is written as null.
RECURSIVE Serialize(_, _)
Serialize(value, type) ==
    CASE type[1] = "String" -> [j |-> "string", v |-> value]
      [] type[1] = "bool" -> [j |-> "bool", v |-> value]
      [] type[1] = "u32" -> [j |-> "number", v |-> FormatWhole(value)]
      [] type[1] = "f32" ->
             IF value = Infinity THEN [j |-> "null"]
             ELSE [j |-> "number", v |-> FormatF32(value)]
      [] type[1] = "Option" ->
             IF value = None THEN [j |-> "null"]
             ELSE Serialize(value[1], type[2])
      [] type[1] \in {"Array8", "Vec"} ->
             [j |-> "array",
              v |-> [i \in 1..Len(value) |-> Serialize(value[i], type[2])]]
      [] type[1] = "enum" ->
             [j |-> "string", v |-> VariantText[<<type[2], value>>]]
      [] type[1] = "struct" ->
             LET fields == Fields(type[2])
                 kept == {fields[i][1] : i \in
                             {i \in 1..Len(fields) :
                                 ~ /\ fields[i][2][1] = "Option"
                                   /\ value[fields[i][1]] = None}}
             IN  [j |-> "object",
                  v |-> [field \in kept |->
                            Serialize(value[field], FieldType(type[2], field))]]

\* The text is all digits.
IsWholeText(text) == text # <<>> /\ SkipDigits(text, 1) = Len(text) + 1

\* Deserialize: Some(value), or None for an error. A missing field is an
\* error unless it is an Option, which is then None; fields that are not
\* declared are passed over.
RECURSIVE Deserialize(_, _)
Deserialize(tree, type) ==
    CASE type[1] = "String" ->
             IF tree.j = "string" THEN Some(tree.v) ELSE None
      [] type[1] = "bool" ->
             IF tree.j = "bool" THEN Some(tree.v) ELSE None
      [] type[1] = "u32" ->
             IF tree.j = "number" /\ IsWholeText(tree.v)
             THEN Some(DigitsValue(tree.v)) ELSE None
      [] type[1] = "f32" ->
             IF tree.j = "number" THEN Some(ParseF32(tree.v)) ELSE None
      [] type[1] = "Option" ->
             IF tree.j = "null" THEN Some(None)
             ELSE LET inner == Deserialize(tree, type[2])
                  IN  IF inner = None THEN None ELSE Some(inner)
      [] type[1] \in {"Array8", "Vec"} ->
             IF /\ tree.j = "array"
                /\ type[1] = "Array8" => Len(tree.v) = 8
                /\ \A i \in 1..Len(tree.v) :
                       Deserialize(tree.v[i], type[2]) # None
             THEN Some([i \in 1..Len(tree.v) |->
                           Deserialize(tree.v[i], type[2])[1]])
             ELSE None
      [] type[1] = "enum" ->
             LET named == {variant \in Variants(type[2]) :
                              VariantText[<<type[2], variant>>] = tree.v}
             IN  IF tree.j = "string" /\ named # {}
                 THEN Some(CHOOSE variant \in named : TRUE) ELSE None
      [] type[1] = "struct" ->
             LET fields == Fields(type[2])
                 names == {fields[i][1] : i \in 1..Len(fields)}
                 Field(field) ==
                     IF field \in DOMAIN tree.v
                     THEN Deserialize(tree.v[field], FieldType(type[2], field))
                     ELSE IF FieldType(type[2], field)[1] = "Option"
                     THEN Some(None) ELSE None
             IN  IF tree.j = "object" /\ \A field \in names : Field(field) # None
                 THEN Some([field \in names |-> Field(field)[1]])
                 ELSE None

(***************************************************************************)
(* The runs of the program that work on a file without starting the        *)
(* editor: config::load_config reads and parses the configuration file     *)
(* (config.rs 108-133), as `--export` does first (main.rs 69-74).          *)
(***************************************************************************)
editorVars ==
    <<config, original_config, current_panel, sidebar_index, field_index,
      input_mode, has_changes, status_message, should_quit, input_buffer,
      theme_index, theme_filter, filtered_themes, font_index, font_filter,
      filtered_fonts, nkeys, search_entry>>

\* App::new has not been called.
EditorNotStarted ==
    /\ config = DefaultConfig
    /\ original_config = DefaultConfig
    /\ current_panel = InitialPanel("")
    /\ sidebar_index = PanelPosition(InitialPanel(""))
    /\ field_index = 0
    /\ input_mode = "Normal"
    /\ has_changes = FALSE
    /\ status_message = NoStatus
    /\ should_quit = FALSE
    /\ input_buffer = <<>>
    /\ theme_index = 0
    /\ theme_filter = <<>>
    /\ filtered_themes = available_themes
    /\ font_index = 0
    /\ font_filter = <<>>
    /\ filtered_fonts = available_fonts
    /\ search_entry = NotRun
    /\ nkeys = 0

FileInit(vocabulary) ==
    /\ EditorNotStarted
    /\ NoCall
    /\ script \in Scripts(vocabulary)
    /\ parse_result = NotRun
    /\ json = NotRun
    /\ imported = NotRun

\* parse_wezterm_config (parser.rs 24-29) on a file that can be read.
parse_wezterm_config ==
    /\ parse_result = NotRun
    /\ parse_result' = parse_lua_content(Content(script))
    /\ UNCHANGED <<editorVars, callVars, script, json, imported>>

\* export_config (main.rs 69-74): load_config, which parses the file, then
\* serde_json::to_string_pretty, printed.
export_config ==
    /\ json = NotRun
    /\ parse_result' = parse_lua_content(Content(script))
    /\ json' = [status |-> "Ok",
                doc |-> Serialize(parse_result'.config, Struct("AppearanceConfig"))]
    /\ UNCHANGED <<editorVars, callVars, script, imported>>

\* import_config (main.rs 76-82) on a file holding what export_config
\* printed: serde_json::from_str, then save_config of the model read.
import_config ==
    /\ json # NotRun
    /\ imported = NotRun
    /\ LET read == Deserialize(json.doc, Struct("AppearanceConfig"))
       IN  imported' = IF read = None THEN [status |-> "Err"]
                       ELSE [status |-> "Ok", config |-> read[1]]
    /\ UNCHANGED <<editorVars, callVars, script, parse_result, json>>

FileNext ==
    \/ parse_wezterm_config
    \/ export_config
    \/ import_config

SettingsSpec == FileInit(SettingsChunks) /\ [][FileNext]_vars

ArraySpec == FileInit(ArrayChunks) /\ [][FileNext]_vars

EnumSpec == FileInit(EnumChunks) /\ [][FileNext]_vars

(***************************************************************************)
(* Where the configuration lives (src-tauri/src/config.rs). A path is the  *)
(* sequence of its components, <<>> being the root. The file system gives *)
(* each path a kind: "absent", "dir" or "file"; a directory standing where *)
(* a file is expected exists and cannot be read.                           *)
(***************************************************************************)
\* PathBuf::join
Join(path, name) == Append(path, name)

\* Path::parent
Parent(path) ==
    IF path = <<>> THEN None ELSE Some(SubSeq(path, 1, Len(path) - 1))

KindOf(files, path) ==
    IF path = <<>> THEN "dir"
    ELSE IF path \in DOMAIN files THEN files[path] ELSE "absent"

\* Path::exists: something stands at the path, whatever its kind.
Exists(files, path) == KindOf(files, path) # "absent"

\* Result<PathBuf, String> together with the file system left behind.
Ok(path, files) == [result |-> "Ok", path |-> path, disk |-> files]

Err(files) == [result |-> "Err", disk |-> files]

\* fs::create_dir_all: creates the missing directories from the top down;
\* fails on a path that is not a directory and where nothing may be
\* created.
RECURSIVE create_dir_all(_, _, _)
create_dir_all(files, path, writable) ==
    LET Below(up) ==
            IF up.result = "Err" THEN up
            ELSE Ok(path, (path :> "dir") @@ up.disk)
    IN  IF KindOf(files, path) = "dir" THEN Ok(path, files)
        ELSE IF KindOf(files, path) # "absent" \/ ~writable THEN Err(files)
        ELSE Below(create_dir_all(files, Parent(path)[1], writable))

\* config.rs 41-61.
get_config_candidates(env) ==
    (IF env.XDG_CONFIG_HOME # None
     THEN <<Join(env.XDG_CONFIG_HOME[1], "wezterm")>> ELSE <<>>)
    \o (IF env.home_dir # None
        THEN <<Join(Join(env.home_dir[1], ".config"), "wezterm")>>
        ELSE <<>>)
    \o (IF env.platform = "windows" /\ env.home_dir # None
        THEN <<Join(env.home_dir[1], ".wezterm")>> ELSE <<>>)

\* config.rs 64-77.
get_default_config_dir(env) ==
    IF env.platform = "linux" /\ env.XDG_CONFIG_HOME # None
    THEN Some(Join(env.XDG_CONFIG_HOME[1], "wezterm"))
    ELSE IF env.home_dir # None
    THEN Some(Join(Join(env.home_dir[1], ".config"), "wezterm"))
    ELSE None

\* `for candidate in &candidates { if candidate.exists() { return ... } }`
RECURSIVE FirstExisting(_, _)
FirstExisting(files, candidates) ==
    IF candidates = <<>> THEN None
    ELSE IF Exists(files, Head(candidates)) THEN Some(Head(candidates))
    ELSE FirstExisting(files, Tail(candidates))

\* config.rs 11-38.
ConfigDir(env, files) ==
    LET Created(default) ==
            IF default = None THEN Err(files)
            ELSE create_dir_all(files, default[1], env.writable)
        Candidate(found) ==
            IF found # None THEN Ok(found[1], files)
            ELSE Created(get_default_config_dir(env))
        Override(parent) ==
            IF parent # None /\ Exists(files, parent[1])
            THEN Ok(parent[1], files)
            ELSE Candidate(FirstExisting(files, get_config_candidates(env)))
    IN  IF env.WEZTERM_CONFIG_FILE # None
        THEN Override(Parent(env.WEZTERM_CONFIG_FILE[1]))
        ELSE Override(None)

\* get_wezterm_config_file that looks at ~/.wezterm.lua before the
\* directory.
ConfigFile_LegacyFirst(env, files) ==
    LET Legacy(dir) ==
            IF env.home_dir # None
                  /\ Exists(dir.disk, Join(env.home_dir[1], ".wezterm.lua"))
            THEN Ok(Join(env.home_dir[1], ".wezterm.lua"), dir.disk)
            ELSE Ok(Join(dir.path, "wezterm.lua"), dir.disk)
        InDir(dir) == IF dir.result = "Err" THEN dir ELSE Legacy(dir)
    IN  IF env.WEZTERM_CONFIG_FILE # None
              /\ Exists(files, env.WEZTERM_CONFIG_FILE[1])
        THEN Ok(env.WEZTERM_CONFIG_FILE[1], files)
        ELSE InDir(ConfigDir(env, files))

\* config.rs 80-103.
ConfigFile(env, files) ==
    LET Legacy(dir) ==
            IF ~Exists(dir.disk, Join(dir.path, "wezterm.lua"))
                  /\ env.home_dir # None
                  /\ Exists(dir.disk, Join(env.home_dir[1], ".wezterm.lua"))
            THEN Ok(Join(env.home_dir[1], ".wezterm.lua"), dir.disk)
            ELSE Ok(Join(dir.path, "wezterm.lua"), dir.disk)
        InDir(dir) == IF dir.result = "Err" THEN dir ELSE Legacy(dir)
    IN  IF env.WEZTERM_CONFIG_FILE # None
              /\ Exists(files, env.WEZTERM_CONFIG_FILE[1])
        THEN Ok(env.WEZTERM_CONFIG_FILE[1], files)
        ELSE InDir(ConfigDir(env, files))

\* parse_wezterm_config (parser.rs 24-29): read_to_string fails on what is
\* not a file; text is what the file holds.
ParseFile(files, path, text) ==
    IF KindOf(files, path) = "file" THEN Some(parse_lua_content(text))
    ELSE None

\* config.rs 108-133; config_dir is the parameter _config_dir.
LoadConfig(config_dir, env, files, text) ==
    LET Parsed(read) ==
            IF read = None THEN AppearanceConfigDefault ELSE read[1].config
        Found(file) ==
            [result |-> "Ok",
             config |->
                 IF file.result = "Ok" /\ Exists(file.disk, file.path)
                 THEN Parsed(ParseFile(file.disk, file.path, text))
                 ELSE AppearanceConfigDefault,
             disk   |-> file.disk]
    IN  Found(ConfigFile(env, files))

\* "Failed to read config file: {}"
ReadError == <<"Failed to read config file">>

\* ConfigLoadResult (config.rs 172-179).
ConfigLoadResult(model, path, exists, raw, errors) ==
    [config |-> model, config_path |-> path, config_exists |-> exists,
     raw_content |-> raw, parse_errors |-> errors]

\* load_config_with_metadata that fails when an existing file cannot be
\* read.
LoadConfigWithMetadata_ReadFails(config_dir, env, files, text) ==
    LET Parsed(path, read) ==
            IF read = None THEN [result |-> "Err"]
            ELSE [result |-> "Ok",
                  value  |-> ConfigLoadResult(read[1].config, path, TRUE,
                                 Some(read[1].raw_content),
                                 read[1].parse_errors)]
        Found(file) ==
            IF file.result = "Err" THEN [result |-> "Err"]
            ELSE IF Exists(file.disk, file.path)
            THEN Parsed(file.path, ParseFile(file.disk, file.path, text))
            ELSE [result |-> "Ok",
                  value  |-> ConfigLoadResult(AppearanceConfigDefault,
                                 file.path, FALSE, None, <<>>)]
        Returned(file) == [call |-> Found(file), disk |-> file.disk]
    IN  Returned(ConfigFile(env, files))

\* config.rs 136-169.
LoadConfigWithMetadata(config_dir, env, files, text) ==
    LET Parsed(path, read) ==
            IF read = None
            THEN ConfigLoadResult(AppearanceConfigDefault, path, TRUE, None,
                     <<ReadError>>)
            ELSE ConfigLoadResult(read[1].config, path, TRUE,
                     Some(read[1].raw_content), read[1].parse_errors)
        Found(file) ==
            IF file.result = "Err" THEN [result |-> "Err"]
            ELSE [result |-> "Ok",
                  value  |->
                      IF Exists(file.disk, file.path)
                      THEN Parsed(file.path,
                               ParseFile(file.disk, file.path, text))
                      ELSE ConfigLoadResult(AppearanceConfigDefault,
                               file.path, FALSE, None, <<>>)]
        Returned(file) == [call |-> Found(file), disk |-> file.disk]
    IN  Returned(ConfigFile(env, files))

\* config.rs 182-194; config_dir is the parameter _config_dir. Nothing is
\* written but the directory.
SaveConfig(model, config_dir, env, files) ==
    LET Made(dir) ==
            IF dir.result = "Err" THEN dir
            ELSE create_dir_all(dir.disk, dir.path, env.writable)
    IN  Made(ConfigDir(env, files))

(***************************************************************************)
(* The worlds a call can meet. The environment: the build target, the two  *)
(* environment variables, dirs::home_dir, and whether directories may be   *)
(* created. The file system: the directories the variables name exist; a   *)
(* configuration directory is absent, a file, or a directory whose         *)
(* wezterm.lua is of any kind.                                             *)
(***************************************************************************)
Platforms == {"linux", "macos", "windows"}

Kinds == {"absent", "dir", "file"}

Environments ==
    [platform            : Platforms,
     WEZTERM_CONFIG_FILE : {None, Some(<<"opt", "wez.lua">>)},
     XDG_CONFIG_HOME     : {None, Some(<<"xdg">>)},
     home_dir            : {None, Some(<<"home">>)},
     writable            : BOOLEAN]

\* The file system with nothing in it.
Nothing == [path \in {} |-> "absent"]

DirTrees(dir) ==
    {dir :> "absent", dir :> "file"}
        \union {(dir :> "dir") @@ (Join(dir, "wezterm.lua") :> kind) :
                    kind \in Kinds}

OverrideTrees(env) ==
    IF env.WEZTERM_CONFIG_FILE = None THEN {Nothing}
    ELSE {<<"opt">> :> "absent", <<"opt">> :> "file"}
             \union {(<<"opt">> :> "dir")
                         @@ (<<"opt", "wez.lua">> :> kind)
                         @@ (<<"opt", "wezterm.lua">> :> other) :
                         kind \in Kinds, other \in {"absent", "file"}}

XdgTrees(env) ==
    IF env.XDG_CONFIG_HOME = None THEN {Nothing}
    ELSE {(<<"xdg">> :> "dir") @@ tree :
              tree \in DirTrees(<<"xdg", "wezterm">>)}

HomeTrees(env) ==
    IF env.home_dir = None THEN {Nothing}
    ELSE {(<<"home">> :> "dir") @@ (<<"home", ".config">> :> "dir")
              @@ (<<"home", ".wezterm.lua">> :> legacy)
              @@ (<<"home", ".wezterm">> :> alternate) @@ tree :
              legacy \in {"absent", "file"},
              alternate \in IF env.platform = "windows"
                            THEN {"absent", "dir"} ELSE {"absent"},
              tree \in DirTrees(<<"home", ".config", "wezterm">>)}

Disks(env) ==
    {over @@ xdg @@ home :
         over \in OverrideTrees(env), xdg \in XdgTrees(env),
         home \in HomeTrees(env)}

\* The --config-dir flag.
ConfigDirArgs == {None, Some(<<"alt">>)}

\* What the configuration file holds, wherever it stands.
FileScript == <<"font_table">>

\* The fields of the model the editor can write.
Edited(model) ==
    [ color_scheme                |-> model.color_scheme,
      fonts_family                |-> model.fonts.family,
      settings_tui                |-> model.keybindings.custom_commands.settings_tui,
      rename_tab                  |-> model.keybindings.custom_commands.rename_tab,
      ctrl_click_open_link        |-> model.keybindings.mouse.ctrl_click_open_link,
      right_click_command_palette |->
          model.keybindings.mouse.right_click_command_palette,
      disable_defaults            |-> model.keybindings.disable_defaults,
      leader_enabled              |-> model.keybindings.leader.enabled ]

CallInit ==
    /\ EditorNotStarted
    /\ script = FileScript
    /\ parse_result = NotRun
    /\ json = NotRun
    /\ imported = NotRun
    /\ environment \in Environments
    /\ disk \in Disks(environment)
    /\ returned = NotRun

\* One call of get_wezterm_config_dir.
get_wezterm_config_dir ==
    /\ returned = NotRun
    /\ \E dir \in {ConfigDir(environment, disk)} :
          /\ returned' = [call |-> "get_wezterm_config_dir",
                          value |-> [field \in DOMAIN dir \ {"disk"} |->
                                         dir[field]]]
          /\ disk' = dir.disk
    /\ UNCHANGED <<editorVars, fileVars, environment>>

\* One call of get_wezterm_config_file.
get_wezterm_config_file ==
    /\ returned = NotRun
    /\ \E file \in {ConfigFile(environment, disk)} :
          /\ returned' = [call |-> "get_wezterm_config_file",
                          value |-> [field \in DOMAIN file \ {"disk"} |->
                                         file[field]]]
          /\ disk' = file.disk
    /\ UNCHANGED <<editorVars, fileVars, environment>>

\* One call of load_config.
load_config ==
    /\ returned = NotRun
    /\ \E config_dir \in ConfigDirArgs :
       \E load \in {LoadConfig(config_dir, environment, disk,
                        Content(script))} :
          /\ returned' = [call |-> "load_config", config_dir |-> config_dir,
                          value |-> [field \in DOMAIN load \ {"disk"} |->
                                         load[field]]]
          /\ disk' = load.disk
    /\ UNCHANGED <<editorVars, fileVars, environment>>

\* One call of load_config_with_metadata.
load_config_with_metadata ==
    /\ returned = NotRun
    /\ \E config_dir \in ConfigDirArgs :
       \E load \in {LoadConfigWithMetadata(config_dir, environment, disk,
                        Content(script))} :
          /\ returned' = [call |-> "load_config_with_metadata",
                          config_dir |-> config_dir, value |-> load.call]
          /\ disk' = load.disk
    /\ UNCHANGED <<editorVars, fileVars, environment>>

\* One call of config::save_config, on the default model.
config_save_config ==
    /\ returned = NotRun
    /\ \E config_dir \in ConfigDirArgs :
       \E save \in {SaveConfig(AppearanceConfigDefault, config_dir,
                        environment, disk)} :
          /\ returned' = [call |-> "save_config", config_dir |-> config_dir,
                          value |-> [field \in DOMAIN save \ {"disk"} |->
                                         save[field]]]
          /\ disk' = save.disk
    /\ UNCHANGED <<editorVars, fileVars, environment>>

\* App::new (app.rs 138-186): load_config(..).unwrap_or_default(), then the
\* panel.
App_new ==
    /\ returned = NotRun
    /\ \E config_dir \in ConfigDirArgs :
       \E load \in {LoadConfig(config_dir, environment, disk,
                        Content(script))} :
       \E initial_panel \in PanelArgs :
          /\ config' = Edited(IF load.result = "Ok" THEN load.config
                              ELSE AppearanceConfigDefault)
          /\ original_config' = config'
          /\ current_panel' = InitialPanel(initial_panel)
          /\ sidebar_index' = PanelPosition(InitialPanel(initial_panel))
          /\ returned' = [call |-> "App::new", config_dir |-> config_dir,
                          initial_panel |-> initial_panel,
                          value |-> [result |-> "Ok", loaded |-> load.result,
                                     config |-> load.config]]
          /\ disk' = load.disk
    /\ UNCHANGED <<field_index, input_mode, has_changes, status_message,
                   should_quit, input_buffer, theme_index, theme_filter,
                   filtered_themes, font_index, font_filter, filtered_fonts,
                   nkeys, search_entry, fileVars, environment>>

CallNext ==
    \/ get_wezterm_config_dir
    \/ get_wezterm_config_file
    \/ load_config
    \/ load_config_with_metadata
    \/ config_save_config
    \/ App_new

CallSpec == CallInit /\ [][CallNext]_vars

(***************************************************************************)
(* Properties.                                                             *)
(***************************************************************************)
\* A step of the editor that handles `key` while in `mode`.
KeyStep(key, mode) == input_mode = mode /\ handle_key(key)

InThemeSearch == input_mode = "Editing" /\ current_panel = "Themes"

InFontSearch ==
    input_mode = "Editing" /\ current_panel = "Fonts" /\ field_index > 5

\* The elements of list at the positions idx, in the order of the list.
SubListAt(list, idx) ==
    LET n == Cardinality(idx)
        ord == CHOOSE f \in [1..n -> idx] :
                   \A a, b \in 1..n : a < b => f[a] < f[b]
    IN  [k \in 1..n |-> list[ord[k]]]

\* The case-insensitive substring matches of filter in list, in list order.
Matches(list, filter) ==
    SubListAt(list,
              {i \in 1..Len(list) :
                  Contains(ToLowercase(list[i]), ToLowercase(filter))})

FiltersExact ==
    /\ filtered_themes = Matches(available_themes, theme_filter)
    /\ filtered_fonts = Matches(available_fonts, font_filter)

FilterKey(key) == key.code \in {"Char", "Backspace", "Enter"}

FilterKeyResetsIndex ==
    \A key \in Keys :
        /\ (InThemeSearch /\ FilterKey(key) /\ handle_key(key))
               => theme_index' = 0
        /\ (InFontSearch /\ FilterKey(key) /\ handle_key(key))
               => font_index' = 0

\* C1: in every reachable state the filtered theme (font) list is exactly the
\* in-order sub-list of the catalogue whose lower-cased names contain the
\* lower-cased filter, and a character, Backspace or Enter key in a selector's
\* search box leaves that selector's selection index at 0.
C1_FilteredListsExact == [](FiltersExact) /\ [][FilterKeyResetsIndex]_vars

\* A search typed in upper case has narrowed the theme list to the three
\* names containing "n".
C1_Witness ==
    /\ input_mode = "Editing"
    /\ theme_filter = <<"N">>
    /\ Len(filtered_themes) = 3
    /\ theme_index = 0

NavCodes == {"Up", "Down", "Tab", "BackTab"}

NavKeys == {key \in Keys : key.code \in NavCodes}

\* One navigation key handled in Normal mode with field_index in range.
NavStepKeepsRange ==
    \A key \in NavKeys :
        (KeyStep(key, "Normal") /\ field_index <= get_field_count)
            => /\ field_index' >= 0
               /\ field_index' <= FieldCountOf(current_panel', filtered_themes')
               /\ (key.code = "Tab" /\ field_index = get_field_count)
                      => field_index' = 1
               /\ (key.code = "BackTab" /\ field_index = 1)
                      => field_index' = get_field_count
               /\ key.code \in {"Tab", "BackTab"} => field_index' # 0

\* C2: from sidebar focus (field_index 0, which is in range), every Up, Down,
\* Tab or Shift-Tab key handled in Normal mode keeps field_index within
\* 0..field_count(current_panel); Tab at field_count wraps to 1, Shift-Tab at
\* 1 wraps to field_count, and Tab and Shift-Tab never leave field_index 0.
C2_NavigationInRange == [][NavStepKeepsRange]_vars

\* Two keys after start-up the last Colors field has focus: Shift-Tab has
\* gone from the sidebar to field 1 and wrapped, or wrapped directly.
C2_Witness ==
    /\ current_panel = "Colors"
    /\ field_index = 23
    /\ nkeys <= 2

SelectorEnter(key) == key.code = "Enter" /\ input_mode = "Normal"

ThemeFocused == current_panel = "Themes" /\ field_index > 0

FontFocused == current_panel = "Fonts" /\ field_index > 5

\* Enter in the focused selector applied the selected item and set the flag.
ThemeApplied ==
    /\ has_changes'
    /\ theme_index < Len(filtered_themes)
    /\ config' = [config EXCEPT !.color_scheme = filtered_themes[theme_index + 1]]

FontApplied ==
    /\ has_changes'
    /\ font_index < Len(filtered_fonts)
    /\ config' = [config EXCEPT !.fonts_family = filtered_fonts[font_index + 1]]

ApplyAlways ==
    \A key \in Keys :
        /\ (SelectorEnter(key) /\ ThemeFocused /\ handle_key(key)) => ThemeApplied
        /\ (SelectorEnter(key) /\ FontFocused /\ handle_key(key)) => FontApplied

\* C3 as stated: Enter in a focused selector sets the scheme (the family) to
\* the selected item and sets the dirty flag in every reachable selector state.
C3_Original == [][ApplyAlways]_vars

ApplyWhenSelected ==
    \A key \in Keys :
        /\ (SelectorEnter(key) /\ ThemeFocused /\ handle_key(key))
               => IF filtered_themes # <<>> THEN ThemeApplied
                  ELSE UNCHANGED <<config, has_changes>>
        /\ (SelectorEnter(key) /\ FontFocused /\ handle_key(key))
               => IF filtered_fonts # <<>> THEN FontApplied
                  ELSE UNCHANGED <<config, has_changes>>

\* C3 amended: Enter in a focused selector whose filtered list is not empty
\* sets the scheme (the family) to the selected item and sets the dirty flag;
\* with an empty filtered list it leaves the model and the flag as they were.
C3_ApplySelected == [][ApplyWhenSelected]_vars

\* The second theme of the list has been applied to the default model.
C3_Witness ==
    /\ status_message.kind = "theme_set"
    /\ config.color_scheme = <<"N","e","o","n">>
    /\ has_changes
    /\ original_config.color_scheme = NoScheme

QuitKey(key) == IsChar(key, "q") \/ key.code = "Esc"

QuitStep ==
    \A key \in Keys :
        (QuitKey(key) /\ KeyStep(key, "Normal"))
            => IF has_changes
               THEN input_mode' = "Confirm" /\ ~should_quit'
               ELSE should_quit' /\ input_mode' = "Normal"

\* C4: in Normal mode, whatever the panel and field, q or Escape sets the
\* quit flag without entering Confirm when the dirty flag is unset, and
\* enters Confirm leaving the quit flag unset when it is set.
C4_QuitOrConfirm == [][QuitStep]_vars

\* Quit was asked from inside a panel with unsaved changes.
C4_Witness ==
    /\ input_mode = "Confirm"
    /\ has_changes
    /\ ~should_quit
    /\ field_index > 0

ConfirmStep ==
    \A key \in Keys :
        KeyStep(key, "Confirm") =>
            /\ IsChar(key, "y")
                   => should_quit' /\ UNCHANGED cfgVars
            /\ (IsChar(key, "n") \/ key.code = "Esc")
                   => /\ input_mode' = "Normal"
                      /\ ~should_quit'
                      /\ UNCHANGED cfgVars
            /\ IsChar(key, "s")
                   => /\ should_quit'
                      /\ ~has_changes'
                      /\ original_config' = config'
                      /\ config' = config

\* C5: in Confirm mode y sets the quit flag without saving; n or Escape
\* returns to Normal with model, baseline and dirty flag unchanged and the
\* quit flag unset; s saves and then terminates with the changes saved.
C5_Original == [][ConfirmStep]_vars

SaveKey(key) ==
    \/ input_mode = "Normal" /\ IsChar(key, "s") /\ key.ctrl
    \/ input_mode = "Confirm" /\ IsChar(key, "s")

SaveSucceeds ==
    \A key \in Keys :
        (SaveKey(key) /\ handle_key(key))
            => /\ status_message'.kind \in {"saved", "save_error"}
               /\ status_message'.kind = "saved"
                      => /\ ~has_changes'
                         /\ original_config' = config
                         /\ config' = config

\* C6: a save that succeeds (Ctrl+S in Normal mode, s in Confirm mode) clears
\* the dirty flag and makes the baseline equal to the current model, which
\* it leaves unchanged.
C6_SuccessfulSave == [][SaveSucceeds]_vars

\* An edited model has been saved: the baseline has followed it.
C6_Witness ==
    /\ status_message.kind = "saved"
    /\ ~has_changes
    /\ config # DefaultConfig
    /\ original_config = config

SaveFails ==
    \A key \in Keys :
        (SaveKey(key) /\ handle_key(key) /\ status_message'.kind # "saved")
            => /\ status_message'.kind = "save_error"
               /\ status_message' # NoStatus
               /\ UNCHANGED cfgVars

\* C7: a save that fails leaves the model, the baseline and the dirty flag as
\* they were and leaves the error as a status message.
C7_FailedSave == [][SaveFails]_vars

\* Ctrl+S failed on an edited model: the changes are still pending.
C7_Witness ==
    /\ status_message.kind = "save_error"
    /\ input_mode = "Normal"
    /\ has_changes
    /\ config # original_config

InFieldEdit == input_mode = "Editing" /\ ~InThemeSearch /\ ~InFontSearch

\* The text of the field (panel, index) of a model, as the editor reads it.
FieldText(cfg, panel, index) == get_current_field_value

CommitStep ==
    \A key \in Keys :
        (InFieldEdit /\ key.code = "Enter" /\ handle_key(key))
            => /\ has_changes'
               /\ input_mode' = "Normal"
               /\ FieldText(config', current_panel, field_index) = input_buffer

\* C8: Enter while editing a plain field writes the buffer into the model
\* field at (current_panel, field_index), sets the dirty flag and returns to
\* Normal mode.
C8_Original == [][CommitStep]_vars

\* The boolean each Keybindings field stands for.
KeybindingFields ==
    <<"settings_tui", "rename_tab", "ctrl_click_open_link",
      "right_click_command_palette", "disable_defaults", "leader_enabled">>

ToggleStep ==
    \A key \in Keys :
        (key.code = "Enter" /\ KeyStep(key, "Normal")
            /\ current_panel = "Keybindings" /\ field_index \in 1..6)
            => /\ config' = [config EXCEPT ![KeybindingFields[field_index]] =
                                               ~config[KeybindingFields[field_index]]]
               /\ input_mode' = "Normal"
               /\ input_buffer' = input_buffer
               /\ has_changes'
               /\ status_message'.kind = "toggled"

\* C9: in the Keybindings panel Enter on field 1..6 flips exactly the boolean
\* of that field, leaves the rest of the model alone, stays in Normal mode
\* with no edit buffer opened, and sets the dirty flag and a status message.
C9_ToggleExactlyOne == [][ToggleStep]_vars

\* The leader key (field 6) has been switched off, nothing else changed.
C9_Witness ==
    /\ status_message.kind = "toggled"
    /\ config = [DefaultConfig EXCEPT !.leader_enabled = FALSE]
    /\ has_changes
    /\ input_mode = "Normal"
    /\ field_index = 6

\* C10 as stated: field_index never exceeds the current panel's field count.
C10_Original == field_index <= get_field_count

\* C10 amended: field_index never exceeds the current panel's field count,
\* except in the Fonts panel, where 6 is the font selector, and in the Themes
\* panel, where the bound is the size of the whole catalogue (at least 1)
\* rather than of the filtered list.
C10_FieldIndexBound ==
    field_index <=
        IF current_panel = "Fonts" THEN 6
        ELSE IF current_panel = "Themes" THEN Max(Len(available_themes), 1)
        ELSE FieldCountOf(current_panel, filtered_themes)

\* A search has shrunk the theme list below the focused field.
C10_Witness ==
    /\ current_panel = "Themes"
    /\ filtered_themes # <<>>
    /\ field_index > Len(filtered_themes)

LeftStep ==
    \A key \in Keys :
        (IsLeft(key) /\ KeyStep(key, "Normal")) => field_index' = 0

\* C11: in Normal mode Left or h puts the focus back on the sidebar
\* (field_index 0) from every panel and every field position, the focused
\* theme and font selectors included.
C11_Original == [][LeftStep]_vars

HelpStep ==
    \A key \in Keys : KeyStep(key, "Help") => input_mode' = "Normal"

\* C12: in Help mode every key press returns the editor to Normal mode.
C12_Original == [][HelpStep]_vars

EscapeStep ==
    \A key \in Keys :
        (InFieldEdit /\ key.code = "Esc" /\ handle_key(key))
            => /\ input_mode' = "Normal"
               /\ input_buffer' = <<>>
               /\ UNCHANGED cfgVars

\* C13: Escape while editing a plain field returns to Normal mode with the
\* buffer discarded and leaves the model, the baseline and the dirty flag as
\* they were, whatever the buffer holds.
C13_EscapeDiscards == [][EscapeStep]_vars

\* Text has been typed into the buffer of a plain field while the dirty flag
\* is set, and the next key, Escape among them, is still to be handled.
C13_Witness ==
    /\ InFieldEdit
    /\ input_buffer # <<>>
    /\ has_changes
    /\ ~should_quit
    /\ nkeys < MaxKeys

\* The text being edited at the focus: a selector's filter, else the field.
EditedText ==
    IF ThemeFocused THEN theme_filter
    ELSE IF FontFocused THEN font_filter
    ELSE FieldText(config, current_panel, field_index)

EnterEditingStep ==
    \A key \in Keys :
        (KeyStep(key, "Normal") /\ input_mode' = "Editing")
            => input_buffer' = EditedText

\* C14: whenever Editing mode is entered the buffer holds the current text of
\* what is edited: the filter of the focused theme or font selector, and the
\* text of the focused field otherwise.
C14_Original == [][EnterEditingStep]_vars

\* C15 as stated: the dirty flag is set exactly when the model differs from
\* the baseline.
C15_Original == has_changes <=> config # original_config

\* C15 amended: whenever the model differs from the baseline the dirty flag is
\* set; the flag may also be set while the two are equal, because every
\* mutating action sets it without comparing.
C15_DirtyWhenDifferent == config # original_config => has_changes

\* After one successful save the model has been changed again.
C15_Witness ==
    /\ original_config # DefaultConfig
    /\ config # original_config
    /\ has_changes

\* What the assignments in a chunk of the first vocabulary say, read by
\* hand: the field written, which of the field's patterns recognizes the
\* assignment (2 for the table form of wezterm.font, else 1), and the value.
\* An assignment to a name that ends in a recognized name counts for that
\* name, as the patterns are not anchored.
Assignments(c) ==
    CASE c = "test_parse_simple_config" ->
           << <<<<"fonts", "size">>, 1, F32(<<"1", "4">>, <<>>)>>,
              <<<<"fonts", "family">>, 1, <<"J", "e", "t", "B", "r", "a", "i",
                  "n", "s", " ", "M", "o", "n", "o">>>>,
              <<<<"window", "window_background_opacity">>, 1, F32(<<"0">>,
                  <<"9", "5">>)>>,
              <<<<"window", "enable_tab_bar">>, 1, FALSE>> >>
      [] c = "foreground" ->
           << <<<<"colors", "foreground">>, 1, <<"#", "f", "f", "f", "f", "f",
               "f">>>> >>
      [] c = "tab_bar_background" ->
           << <<<<"colors", "tab_bar", "background">>, 1, <<"#", "0", "0",
               "0", "0", "0", "0">>>>,
              <<<<"colors", "background">>, 1, <<"#", "0", "0", "0", "0", "0",
                  "0">>>> >>
      [] c = "command_palette_font_size" ->
           << <<<<"fonts", "size">>, 1, F32(<<"1", "6">>, <<>>)>> >>
      [] c = "font_table" ->
           << <<<<"fonts", "family">>, 2, <<"M", "o", "n", "a", "c",
               "o">>>> >>
      [] c = "font_size" ->
           << <<<<"fonts", "size">>, 1, F32(<<"1", "3">>, <<"5">>)>> >>
      [] c = "window_padding_left" ->
           << <<<<"window", "window_padding", "left">>, 1, F32(<<"5">>,
               <<>>)>> >>
      [] c = "tab_max_width" ->
           << <<<<"window", "tab_max_width">>, 1, 30>> >>
      [] c = "enable_tab_bar" ->
           << <<<<"window", "enable_tab_bar">>, 1, TRUE>> >>
      [] c = "cursor_blink_rate" ->
           << <<<<"cursor", "cursor_blink_rate">>, 1, 500>> >>
      [] c = "max_fps" ->
           << <<<<"gpu", "max_fps">>, 1, 60>> >>
      [] c = "max_fps_large" ->
           << <<<<"gpu", "max_fps">>, 1, 16777217>> >>
      [] c = "font_size_huge" ->
           << <<<<"fonts", "size">>, 1, F32(<<"1", "0", "0", "0", "0", "0",
               "0", "0", "0", "0", "0", "0", "0", "0", "0", "0", "0", "0",
               "0", "0", "0", "0", "0", "0", "0", "0", "0", "0", "0", "0",
               "0", "0", "0", "0", "0", "0", "0", "0", "0", "0">>, <<>>)>> >>
      [] OTHER -> <<>>

RECURSIVE Get(_, _)
Get(r, path) == IF path = <<>> THEN r ELSE Get(r[Head(path)], Tail(path))

RECURSIVE Put(_, _, _)
Put(r, path, v) ==
    IF path = <<>> THEN v
    ELSE [r EXCEPT ![Head(path)] = Put(@, Tail(path), v)]

\* The fields the chunks of the first vocabulary can write.
RecognizedPaths ==
    {Assignments(c)[i][1] : <<c, i>> \in
        {<<c, i>> \in SettingsChunks \X (1..4) : i <= Len(Assignments(c))}}

\* The value the first assignment to path by the given pattern carries.
FirstAssignment(chunks, path, form) ==
    LET Hit(c) == {i \in 1..Len(Assignments(c)) :
                      Assignments(c)[i][1] = path /\ Assignments(c)[i][2] = form}
        at == {k \in 1..Len(chunks) : Hit(chunks[k]) # {}}
        first == CHOOSE k \in at : \A j \in at : k <= j
    IN  IF at = {} THEN None
        ELSE Some(Assignments(chunks[first])[CHOOSE i \in Hit(chunks[first]) : TRUE][3])

\* The values a field may hold after extraction: that of the first match of
\* one of its patterns, and its default when no pattern matches.
Matched(chunks, path) ==
    LET found == {FirstAssignment(chunks, path, form) : form \in {1, 2}} \ {None}
    IN  IF found = {} THEN {Get(AppearanceConfigDefault, path)}
        ELSE {f[1] : f \in found}

\* The model with the recognized fields blanked.
RECURSIVE Blank(_, _)
Blank(r, paths) ==
    IF paths = {} THEN r
    ELSE LET p == CHOOSE p \in paths : TRUE
         IN  Blank(Put(r, p, None), paths \ {p})

\* What test_parse_simple_config asserts, and defaults elsewhere.
TestExpected ==
    [AppearanceConfigDefault EXCEPT
        !.fonts.size = F32(<<"1", "4">>, <<>>),
        !.fonts.family = <<"J", "e", "t", "B", "r", "a", "i", "n", "s", " ",
                           "M", "o", "n", "o">>,
        !.window.window_background_opacity = F32(<<"0">>, <<"9", "5">>),
        !.window.enable_tab_bar = FALSE]

\* C16 as stated: after extraction every recognized field whose pattern
\* matches in the text holds the matched value, every other field of the
\* model has its default, and the text of test_parse_simple_config gives font
\* size 14, family "JetBrains Mono", opacity 0.95, no tab bar and defaults
\* elsewhere.
C16_Original ==
    parse_result # NotRun =>
        /\ \A path \in RecognizedPaths :
               Get(parse_result.config, path) \in Matched(script, path)
        /\ Blank(parse_result.config, RecognizedPaths)
               = Blank(AppearanceConfigDefault, RecognizedPaths)
        /\ script = <<"test_parse_simple_config">>
               => parse_result.config = TestExpected

\* The array literal in a chunk of the second vocabulary, read by hand: the
\* name it is bound to and its quoted strings in source order.
ArrayLiteral(c) ==
    CASE c = "test_parse_color_array" ->
           <<"ansi", <<<<"#", "0", "0", "0", "0", "0", "0">>, <<"#", "f", "f",
               "0", "0", "0", "0">>, <<"#", "0", "0", "f", "f", "0", "0">>,
               <<"#", "f", "f", "f", "f", "0", "0">>, <<"#", "0", "0", "0",
               "0", "f", "f">>, <<"#", "f", "f", "0", "0", "f", "f">>, <<"#",
               "0", "0", "f", "f", "f", "f">>, <<"#", "f", "f", "f", "f", "f",
               "f">>>>>>
      [] c = "ansi_6" ->
           <<"ansi", <<<<"#", "0", "0", "0", "0", "0", "0">>, <<"#", "f", "f",
               "0", "0", "0", "0">>, <<"#", "0", "0", "f", "f", "0", "0">>,
               <<"#", "f", "f", "f", "f", "0", "0">>, <<"#", "0", "0", "0",
               "0", "f", "f">>, <<"#", "f", "f", "0", "0", "f", "f">>>>>>
      [] c = "ansi_9" ->
           <<"ansi", <<<<"#", "0", "0", "0", "0", "0", "0">>, <<"#", "f", "f",
               "0", "0", "0", "0">>, <<"#", "0", "0", "f", "f", "0", "0">>,
               <<"#", "f", "f", "f", "f", "0", "0">>, <<"#", "0", "0", "0",
               "0", "f", "f">>, <<"#", "f", "f", "0", "0", "f", "f">>, <<"#",
               "0", "0", "f", "f", "f", "f">>, <<"#", "f", "f", "f", "f", "f",
               "f">>, <<"#", "1", "2", "3", "4", "5", "6">>>>>>
      [] c = "ansi_8_lines" ->
           <<"ansi", <<<<"#", "1">>, <<"#", "2">>, <<"#", "3">>, <<"#", "4">>,
               <<"#", "5">>, <<"#", "6">>, <<"#", "7">>, <<"#", "8">>>>>>
      [] c = "ansi_numbers" ->
           <<"ansi", <<>>>>
      [] c = "brights_8" ->
           <<"brights", <<<<"#", "8", "0", "8", "0", "8", "0">>, <<"#", "f",
               "f", "8", "0", "8", "0">>, <<"#", "8", "0", "f", "f", "8",
               "0">>, <<"#", "f", "f", "f", "f", "8", "0">>, <<"#", "8", "0",
               "8", "0", "f", "f">>, <<"#", "f", "f", "8", "0", "f", "f">>,
               <<"#", "8", "0", "f", "f", "f", "f">>, <<"#", "f", "e", "f",
               "e", "f", "e">>>>>>
      [] c = "brights_6" ->
           <<"brights", <<<<"#", "8", "0", "8", "0", "8", "0">>, <<"#", "f",
               "f", "8", "0", "8", "0">>, <<"#", "8", "0", "f", "f", "8",
               "0">>, <<"#", "f", "f", "f", "f", "8", "0">>, <<"#", "8", "0",
               "8", "0", "f", "f">>, <<"#", "f", "f", "8", "0", "f", "f">>>>>>
      [] OTHER -> <<"", <<>>>>

\* What the literals of the chunks leave in an array field: the strings of the
\* first literal bound to the name when there are 8 of them, else the default.
ArrayExpected(chunks, name) ==
    LET at == {k \in 1..Len(chunks) : ArrayLiteral(chunks[k])[1] = name}
        first == CHOOSE k \in at : \A j \in at : k <= j
    IN  IF at # {} /\ Len(ArrayLiteral(chunks[first])[2]) = 8
        THEN ArrayLiteral(chunks[first])[2]
        ELSE ColorSchemeDefault[name]

\* C17: ansi and brights always have 8 entries: a literal with 8 quoted
\* strings replaces the field with them in source order, a literal with
\* another number of quoted strings leaves the default, and no warning is
\* added either way.
C17_EightOrUnchanged ==
    parse_result # NotRun =>
        /\ \A name \in {"ansi", "brights"} :
               /\ Len(parse_result.config.colors[name]) = 8
               /\ parse_result.config.colors[name] = ArrayExpected(script, name)
        /\ parse_result.parse_errors = <<>>

\* A literal of 8 strings has replaced ansi while a literal of 6 has left
\* brights alone.
C17_Witness ==
    /\ script = <<"test_parse_color_array", "brights_6">>
    /\ parse_result # NotRun
    /\ parse_result.config.colors.ansi = ArrayLiteral("test_parse_color_array")[2]
    /\ parse_result.config.colors.ansi # ColorSchemeDefault.ansi
    /\ parse_result.config.colors.brights = ColorSchemeDefault.brights
    /\ Len(ArrayLiteral("brights_6")[2]) = 6

\* The five sections in the order they run, each applied to its part of a
\* fresh default model.
SectionRuns(content) ==
    << <<"Colors", "colors", parse_colors(content, ColorSchemeDefault)>>,
       <<"Fonts", "fonts", parse_fonts(content, FontConfigDefault)>>,
       <<"Window", "window", parse_window(content, WindowConfigDefault)>>,
       <<"Cursor", "cursor", parse_cursor(content, CursorConfigDefault)>>,
       <<"GPU", "gpu", parse_gpu(content, GPUConfigDefault)>> >>

EnumLiteral(c) ==
    CASE c = "weight_known" -> <<<<"fonts", "weight">>, "FontWeight",
        "DemiBold">>
      [] c = "weight_unknown" -> <<<<"fonts", "weight">>, "FontWeight", "?">>
      [] c = "load_target_known" -> <<<<"fonts", "freetype_load_target">>,
          "FreetypeTarget", "HorizontalLcd">>
      [] c = "load_target_unknown" -> <<<<"fonts", "freetype_load_target">>,
          "FreetypeTarget", "?">>
      [] c = "render_target_known" -> <<<<"fonts", "freetype_render_target">>,
          "FreetypeTarget", "Light">>
      [] c = "render_target_unknown" -> <<<<"fonts",
          "freetype_render_target">>, "FreetypeTarget", "?">>
      [] c = "decorations_known" -> <<<<"window", "window_decorations">>,
          "WindowDecorations", "Resize">>
      [] c = "decorations_unknown" -> <<<<"window", "window_decorations">>,
          "WindowDecorations", "?">>
      [] c = "close_always" -> <<<<"window", "window_close_confirmation">>,
          "CloseConfirmation", "AlwaysPrompt">>
      [] c = "close_never" -> <<<<"window", "window_close_confirmation">>,
          "CloseConfirmation", "NeverPrompt">>
      [] c = "close_unknown" -> <<<<"window", "window_close_confirmation">>,
          "CloseConfirmation", "?">>
      [] c = "style_known" -> <<<<"cursor", "default_cursor_style">>,
          "CursorStyle", "SteadyBar">>
      [] c = "style_unknown" -> <<<<"cursor", "default_cursor_style">>,
          "CursorStyle", "?">>
      [] c = "ease_in_known" -> <<<<"cursor", "cursor_blink_ease_in">>,
          "EaseFunction", "Linear">>
      [] c = "ease_in_unknown" -> <<<<"cursor", "cursor_blink_ease_in">>,
          "EaseFunction", "?">>
      [] c = "ease_out_known" -> <<<<"cursor", "cursor_blink_ease_out">>,
          "EaseFunction", "Constant">>
      [] c = "ease_out_unknown" -> <<<<"cursor", "cursor_blink_ease_out">>,
          "EaseFunction", "?">>
      [] c = "front_end_known" -> <<<<"gpu", "front_end">>, "FrontEnd",
          "OpenGL">>
      [] c = "front_end_unknown" -> <<<<"gpu", "front_end">>, "FrontEnd",
          "?">>
      [] c = "power_known" -> <<<<"gpu", "webgpu_power_preference">>,
          "PowerPreference", "LowPower">>
      [] c = "power_unknown" -> <<<<"gpu", "webgpu_power_preference">>,
          "PowerPreference", "?">>

\* The literals of the lookup tables, with the variant each stands for.
LiteralTable ==
    { <<"FontWeight", <<"t", "h", "i", "n">>, "Thin">>,
      <<"FontWeight", <<"e", "x", "t", "r", "a", "l", "i", "g", "h", "t">>,
          "ExtraLight">>,
      <<"FontWeight", <<"e", "x", "t", "r", "a", "-", "l", "i", "g", "h",
          "t">>, "ExtraLight">>,
      <<"FontWeight", <<"l", "i", "g", "h", "t">>, "Light">>,
      <<"FontWeight", <<"r", "e", "g", "u", "l", "a", "r">>, "Regular">>,
      <<"FontWeight", <<"n", "o", "r", "m", "a", "l">>, "Regular">>,
      <<"FontWeight", <<"m", "e", "d", "i", "u", "m">>, "Medium">>,
      <<"FontWeight", <<"d", "e", "m", "i", "b", "o", "l", "d">>,
          "DemiBold">>,
      <<"FontWeight", <<"d", "e", "m", "i", "-", "b", "o", "l", "d">>,
          "DemiBold">>,
      <<"FontWeight", <<"s", "e", "m", "i", "b", "o", "l", "d">>,
          "DemiBold">>,
      <<"FontWeight", <<"s", "e", "m", "i", "-", "b", "o", "l", "d">>,
          "DemiBold">>,
      <<"FontWeight", <<"b", "o", "l", "d">>, "Bold">>,
      <<"FontWeight", <<"e", "x", "t", "r", "a", "b", "o", "l", "d">>,
          "ExtraBold">>,
      <<"FontWeight", <<"e", "x", "t", "r", "a", "-", "b", "o", "l", "d">>,
          "ExtraBold">>,
      <<"FontWeight", <<"b", "l", "a", "c", "k">>, "Black">>,
      <<"FontWeight", <<"h", "e", "a", "v", "y">>, "Black">>,
      <<"FontWeight", <<"B", "o", "l", "d">>, "Bold">>,
      <<"FreetypeTarget", <<"n", "o", "r", "m", "a", "l">>, "Normal">>,
      <<"FreetypeTarget", <<"l", "i", "g", "h", "t">>, "Light">>,
      <<"FreetypeTarget", <<"m", "o", "n", "o">>, "Mono">>,
      <<"FreetypeTarget", <<"h", "o", "r", "i", "z", "o", "n", "t", "a", "l",
          "l", "c", "d">>, "HorizontalLcd">>,
      <<"FreetypeTarget", <<"h", "o", "r", "i", "z", "o", "n", "t", "a", "l",
          "_", "l", "c", "d">>, "HorizontalLcd">>,
      <<"FreetypeTarget", <<"H", "o", "r", "i", "z", "o", "n", "t", "a", "l",
          "L", "c", "d">>, "HorizontalLcd">>,
      <<"WindowDecorations", <<"F", "U", "L", "L">>, "Full">>,
      <<"WindowDecorations", <<"R", "E", "S", "I", "Z", "E">>, "Resize">>,
      <<"WindowDecorations", <<"N", "O", "N", "E">>, "None">>,
      <<"WindowDecorations", <<"T", "I", "T", "L", "E">>, "Title">>,
      <<"WindowDecorations", <<"I", "N", "T", "E", "G", "R", "A", "T", "E",
          "D", "_", "B", "U", "T", "T", "O", "N", "S", "|", "R", "E", "S",
          "I", "Z", "E">>, "IntegratedButtonsResize">>,
      <<"WindowDecorations", <<"r", "e", "s", "i", "z", "e">>, "Resize">>,
      <<"CloseConfirmation", <<"A", "l", "w", "a", "y", "s", "P", "r", "o",
          "m", "p", "t">>, "AlwaysPrompt">>,
      <<"CloseConfirmation", <<"N", "e", "v", "e", "r", "P", "r", "o", "m",
          "p", "t">>, "NeverPrompt">>,
      <<"CursorStyle", <<"S", "t", "e", "a", "d", "y", "B", "l", "o", "c",
          "k">>, "SteadyBlock">>,
      <<"CursorStyle", <<"B", "l", "i", "n", "k", "i", "n", "g", "B", "l",
          "o", "c", "k">>, "BlinkingBlock">>,
      <<"CursorStyle", <<"S", "t", "e", "a", "d", "y", "U", "n", "d", "e",
          "r", "l", "i", "n", "e">>, "SteadyUnderline">>,
      <<"CursorStyle", <<"B", "l", "i", "n", "k", "i", "n", "g", "U", "n",
          "d", "e", "r", "l", "i", "n", "e">>, "BlinkingUnderline">>,
      <<"CursorStyle", <<"S", "t", "e", "a", "d", "y", "B", "a", "r">>,
          "SteadyBar">>,
      <<"CursorStyle", <<"B", "l", "i", "n", "k", "i", "n", "g", "B", "a",
          "r">>, "BlinkingBar">>,
      <<"EaseFunction", <<"L", "i", "n", "e", "a", "r">>, "Linear">>,
      <<"EaseFunction", <<"E", "a", "s", "e", "I", "n">>, "EaseIn">>,
      <<"EaseFunction", <<"E", "a", "s", "e", "O", "u", "t">>, "EaseOut">>,
      <<"EaseFunction", <<"E", "a", "s", "e", "I", "n", "O", "u", "t">>,
          "EaseInOut">>,
      <<"EaseFunction", <<"C", "o", "n", "s", "t", "a", "n", "t">>,
          "Constant">>,
      <<"FrontEnd", <<"W", "e", "b", "G", "p", "u">>, "WebGpu">>,
      <<"FrontEnd", <<"O", "p", "e", "n", "G", "L">>, "OpenGL">>,
      <<"FrontEnd", <<"S", "o", "f", "t", "w", "a", "r", "e">>, "Software">>,
      <<"PowerPreference", <<"L", "o", "w", "P", "o", "w", "e", "r">>,
          "LowPower">>,
      <<"PowerPreference", <<"H", "i", "g", "h", "P", "e", "r", "f", "o", "r",
          "m", "a", "n", "c", "e">>, "HighPerformance">> }

Enumerations ==
    [FontWeight |-> FontWeight, FreetypeTarget |-> FreetypeTarget,
     WindowDecorations |-> WindowDecorations,
     CloseConfirmation |-> CloseConfirmation, CursorStyle |-> CursorStyle,
     EaseFunction |-> EaseFunction, FrontEnd |-> FrontEnd,
     PowerPreference |-> PowerPreference]

\* What an optional enumerated field holds: its variant, or "absent".
Held(option) == IF option = None THEN "absent" ELSE option[1]

\* The decoder of each enumeration.
Decode(enum, s) ==
    CASE enum = "FontWeight" -> Held(parse_font_weight(s))
      [] enum = "FreetypeTarget" -> Held(parse_freetype_target(s))
      [] enum = "WindowDecorations" -> parse_window_decorations(s)
      [] enum = "CloseConfirmation" -> parse_close_confirmation(s)
      [] enum = "CursorStyle" -> parse_cursor_style(s)
      [] enum = "EaseFunction" -> parse_ease_function(s)
      [] enum = "FrontEnd" -> parse_front_end(s)
      [] enum = "PowerPreference" -> parse_power_preference(s)

\* The enumerated field at path of the model.
EnumField(cfg, path) ==
    IF path[1] = "fonts" THEN Held(Get(cfg, path)) ELSE Get(cfg, path)

EnumPaths == {EnumLiteral(c)[1] : c \in EnumChunks}

\* The chunk of a file that decides an enumerated field: the first one that
\* assigns it.
Deciding(chunks, path) ==
    LET at == {k \in 1..Len(chunks) : EnumLiteral(chunks[k])[1] = path}
    IN  IF at = {} THEN None
        ELSE Some(chunks[CHOOSE k \in at : \A j \in at : k <= j])

\* What a literal outside the lookup table leaves in a field of each
\* enumeration.
Fallback ==
    [FontWeight |-> "absent", FreetypeTarget |-> "absent",
     WindowDecorations |-> "Full", CloseConfirmation |-> "NeverPrompt",
     CursorStyle |-> "BlinkingBlock", EaseFunction |-> "EaseOut",
     FrontEnd |-> "WebGpu", PowerPreference |-> "HighPerformance"]

\* The parse went through without a warning, and the literals of the lookup
\* tables decode to their own variants, in a file too.
TableDecodes ==
    /\ parse_result.status = "Ok"
    /\ parse_result.parse_errors = <<>>
    /\ \A row \in LiteralTable : Decode(row[1], row[2]) = row[3]
    /\ \A path \in EnumPaths :
           LET c == Deciding(script, path)
           IN  (c # None /\ EnumLiteral(c[1])[3] # "?")
                   => EnumField(parse_result.config, path) = EnumLiteral(c[1])[3]

C20_Original ==
    imported # NotRun =>
        /\ imported.status = "Ok"
        /\ imported.config = parse_result.config

(***************************************************************************)
(* The configuration directory and file, loading and start-up.             *)
(***************************************************************************)
\* The directories get_wezterm_config_dir is said to try, in order.
SearchOrder(env) ==
    (IF env.WEZTERM_CONFIG_FILE = None THEN <<>>
     ELSE <<Parent(env.WEZTERM_CONFIG_FILE[1])[1]>>)
    \o (IF env.XDG_CONFIG_HOME = None THEN <<>>
        ELSE <<env.XDG_CONFIG_HOME[1] \o <<"wezterm">> >>)
    \o (IF env.home_dir = None THEN <<>>
        ELSE <<env.home_dir[1] \o <<".config", "wezterm">> >>)
    \o (IF env.home_dir = None \/ env.platform # "windows" THEN <<>>
        ELSE <<env.home_dir[1] \o <<".wezterm">> >>)

\* The directory said to be created when none of those exists.
DefaultDirectory(env) ==
    IF env.platform = "linux" /\ env.XDG_CONFIG_HOME # None
    THEN env.XDG_CONFIG_HOME[1] \o <<"wezterm">>
    ELSE env.home_dir[1] \o <<".config", "wezterm">>

\* C21 as stated: a successful get_wezterm_config_dir returns the first path
\* of the search order that exists, or, when none exists, the default
\* directory, which it has created; either way the path it returns names an
\* existing directory.
C21_Original ==
    [][(get_wezterm_config_dir /\ returned'.value.result = "Ok") =>
          LET order    == SearchOrder(environment)
              existing == {i \in 1..Len(order) : Exists(disk, order[i])}
              path     == returned'.value.path
          IN  /\ existing # {} =>
                     /\ \E i \in existing :
                           /\ \A j \in existing : i <= j
                           /\ path = order[i]
                     /\ disk' = disk
              /\ existing = {} => path = DefaultDirectory(environment)
              /\ KindOf(disk', path) = "dir"]_vars

\* The path get_wezterm_config_file is said to return, the directory
\* resolved being dir: the override, wezterm.lua in dir, ~/.wezterm.lua,
\* each if it exists (Path::exists, whatever stands there), else the
\* wezterm.lua in dir that does not exist yet.
FileByPriority(env, files, dir) ==
    IF /\ env.WEZTERM_CONFIG_FILE # None
       /\ KindOf(files, env.WEZTERM_CONFIG_FILE[1]) # "absent"
    THEN env.WEZTERM_CONFIG_FILE[1]
    ELSE IF KindOf(files, dir \o <<"wezterm.lua">>) # "absent"
    THEN dir \o <<"wezterm.lua">>
    ELSE IF /\ env.home_dir # None
            /\ KindOf(files, env.home_dir[1] \o <<".wezterm.lua">>) # "absent"
    THEN env.home_dir[1] \o <<".wezterm.lua">>
    ELSE dir \o <<"wezterm.lua">>

Called(name) ==
    /\ returned = NotRun
    /\ returned' # NotRun
    /\ returned'.call = name

\* What the text of FileScript assigns, read by hand: the font family, and
\* defaults elsewhere.
FileExpected ==
    [AppearanceConfigDefault EXCEPT
        !.fonts.family = <<"M", "o", "n", "a", "c", "o">>]

\* C23: when the path is resolved load_config_with_metadata does not fail.
\* It returns the extracted model, the path, exists = true, the raw text and
\* the warnings when a readable file stands at the path; the default model,
\* the path, exists = false, no raw text and no warnings when nothing does;
\* the default model, no raw text and a message when what stands there
\* cannot be read.
C23_LoadWithMetadata ==
    [][(/\ Called("load_config_with_metadata")
        /\ ConfigFile(environment, disk).result = "Ok") =>
          /\ returned'.value.result = "Ok"
          /\ LET got  == returned'.value.value
                 path == ConfigFile(environment, disk).path
             IN  /\ got.config_path = path
                 /\ KindOf(disk', path) = "file" =>
                        /\ got.config = FileExpected
                        /\ got.config_exists
                        /\ got.raw_content = Some(Content(script))
                        /\ got.parse_errors
                               = parse_lua_content(Content(script)).parse_errors
                 /\ KindOf(disk', path) = "absent" =>
                        /\ got.config = AppearanceConfigDefault
                        /\ ~got.config_exists
                        /\ got.raw_content = None
                        /\ got.parse_errors = <<>>
                 /\ KindOf(disk', path) = "dir" =>
                        /\ got.config = AppearanceConfigDefault
                        /\ got.raw_content = None
                        /\ Len(got.parse_errors) = 1]_vars

\* What exists at the path could not be read: defaults and a message came
\* back.
C23_Witness ==
    /\ returned # NotRun
    /\ returned.call = "load_config_with_metadata"
    /\ returned.value.result = "Ok"
    /\ returned.value.value.config_exists
    /\ returned.value.value.config = AppearanceConfigDefault
    /\ returned.value.value.parse_errors = <<ReadError>>

\* C24 as stated: when the path cannot be resolved, load_config and
\* load_config_with_metadata return an error, and App::new does not start
\* the editor.
C24_Original ==
    [][ConfigFile(environment, disk).result = "Err" =>
          /\ Called("load_config") => returned'.value.result = "Err"
          /\ Called("load_config_with_metadata") =>
                 returned'.value.result = "Err"
          /\ Called("App::new") => returned'.value.result = "Err"]_vars

\* C25 as stated: with --config-dir given, load_config reads the wezterm.lua
\* of that directory and save_config operates on that directory.
C25_Original ==
    [][/\ (Called("load_config") /\ returned'.config_dir # None) =>
              returned'.value.config =
                  IF KindOf(disk, returned'.config_dir[1] \o <<"wezterm.lua">>)
                         = "file"
                  THEN FileExpected
                  ELSE AppearanceConfigDefault
       /\ (/\ Called("save_config")
           /\ returned'.config_dir # None
           /\ returned'.value.result = "Ok") =>
              /\ returned'.value.path = returned'.config_dir[1]
              /\ KindOf(disk', returned'.config_dir[1]) = "dir"]_vars

\* The panel names of the help text of the PANEL argument, each with the
\* panel it is the name of.
HelpPanels ==
    [colors |-> "Colors", fonts |-> "Fonts", window |-> "Window",
     cursor |-> "Cursor", gpu |-> "Gpu", keys |-> "Keybindings"]

\* C26 as stated: each panel name of the help starts the editor on that
\* panel, sidebar_index at the panel's place in the sidebar and the focus on
\* the sidebar.
C26_Original ==
    [][\A arg \in DOMAIN HelpPanels :
          (Called("App::new") /\ returned'.initial_panel = arg) =>
              /\ current_panel' = HelpPanels[arg]
              /\ PanelAll[sidebar_index' + 1] = HelpPanels[arg]
              /\ field_index' = 0]_vars

(***************************************************************************)
(* The selectors, the search and the dirty flag.                           *)
(***************************************************************************)
\* max(1, n)
AtLeastOne(n) == IF n > 1 THEN n ELSE 1

SelectorIndicesInRange ==
    /\ theme_index >= 0
    /\ theme_index < AtLeastOne(Len(filtered_themes))
    /\ font_index >= 0
    /\ font_index < AtLeastOne(Len(filtered_fonts))

\* Up or k, Down or j handled in Normal mode with a selector focused: the
\* index moves by one at most, in the key's direction, and stays in the
\* list.
SelectorStepByOne ==
    \A key \in {k \in Keys : IsUp(k) \/ IsDown(k)} :
        /\ (KeyStep(key, "Normal") /\ ThemeFocused) =>
               /\ theme_index' \in
                      IF IsUp(key) THEN {theme_index - 1, theme_index}
                      ELSE {theme_index, theme_index + 1}
               /\ theme_index' >= 0
               /\ theme_index' < AtLeastOne(Len(filtered_themes))
               /\ UNCHANGED <<filtered_themes, font_index, filtered_fonts>>
        /\ (KeyStep(key, "Normal") /\ ~ThemeFocused /\ FontFocused) =>
               /\ font_index' \in
                      IF IsUp(key) THEN {font_index - 1, font_index}
                      ELSE {font_index, font_index + 1}
               /\ font_index' >= 0
               /\ font_index' < AtLeastOne(Len(filtered_fonts))
               /\ UNCHANGED <<filtered_fonts, theme_index, filtered_themes>>

\* C27: in every reachable state theme_index < max(1, len(filtered_themes))
\* and font_index < max(1, len(filtered_fonts)); Up, Down and k (j is the
\* match arm of Down) in a focused selector move the index by at most one
\* and never past either end of the filtered list, however a search has
\* shrunk it.
C27_SelectorInRange == []SelectorIndicesInRange /\ [][SelectorStepByOne]_vars

\* A search has shrunk the theme list and Down has moved the selection to
\* its last entry.
C27_Witness ==
    /\ input_mode = "Normal"
    /\ ThemeFocused
    /\ Len(filtered_themes) < Len(available_themes)
    /\ Len(filtered_themes) > 1
    /\ theme_index = Len(filtered_themes) - 1

\* Escape handled during a search: the selector searched is as search_entry
\* recorded it when Editing mode was entered.
SearchCancelled ==
    \A key \in Keys :
        /\ (key.code = "Esc" /\ InThemeSearch /\ handle_key(key)) =>
               /\ input_mode' = "Normal"
               /\ theme_filter' = search_entry.theme_filter
               /\ filtered_themes' = search_entry.filtered_themes
               /\ theme_index' = search_entry.theme_index
        /\ (key.code = "Esc" /\ ~InThemeSearch /\ InFontSearch /\ handle_key(key))
               =>
               /\ input_mode' = "Normal"
               /\ font_filter' = search_entry.font_filter
               /\ filtered_fonts' = search_entry.filtered_fonts
               /\ font_index' = search_entry.font_index

\* C28 as stated: Escape during a theme or font search leaves the selector's
\* filter, filtered list and selection index as they were when the search
\* was entered, whatever was typed in between.
C28_Original == [][SearchCancelled]_vars

ConfirmSaveQuits ==
    \A key \in Keys :
        (IsChar(key, "s") /\ KeyStep(key, "Confirm")) =>
            /\ should_quit'
            /\ status_message'.kind \in {"saved", "save_error"}
            /\ status_message'.kind = "save_error" =>
                   /\ has_changes'
                   /\ UNCHANGED cfgVars

\* C29: s in Confirm mode sets the quit flag whether the save succeeded or
\* failed; after a failed save the dirty flag is set and the model and the
\* baseline are as before; and no key is handled, so no frame drawn, once
\* the quit flag is set: the event loop breaks before it draws again.
C29_SaveThenQuit == [][ConfirmSaveQuits /\ ~should_quit]_vars

\* The save asked for in Confirm mode has failed and the editor has quit
\* with the changes still pending.
C29_Witness ==
    /\ should_quit
    /\ input_mode = "Confirm"
    /\ status_message.kind = "save_error"
    /\ has_changes
    /\ config # original_config

CleanMeansBaseline == ~has_changes => config = original_config

\* A key that changes the model sets the flag; a key that clears the flag is
\* a save that succeeded, and the baseline is then the model.
FlagFollowsModel ==
    \A key \in Keys :
        handle_key(key) =>
            /\ config' # config => has_changes'
            /\ (has_changes /\ ~has_changes') =>
                   /\ SaveKey(key)
                   /\ status_message'.kind = "saved"
                   /\ original_config' = config'

\* C30: in every reachable state an unset dirty flag means the model equals
\* the baseline; every key that changes the model sets the flag, and the
\* flag is cleared by a successful save only.
C30_CleanMeansBaseline == []CleanMeansBaseline /\ [][FlagFollowsModel]_vars

\* A changed model was saved and a further key has been handled since: the
\* flag is unset and the baseline is the changed model.
C30_Witness ==
    /\ ~has_changes
    /\ status_message = NoStatus
    /\ original_config # DefaultConfig
    /\ config = original_config
====
